---- MODULE Spec2Model ----
(***************************************************************************)
(* Geometry computation and caching pipeline of the CAD application:       *)
(* GeometryComputer (compute, computeBoolean, computeExtrude,              *)
(* computeRevolve, markDirtyWithDependents), the kernel initialisation of  *)
(* ManifoldEngine, and the node / geometry-cache stores of cadStore.       *)
(*                                                                         *)
(* JavaScript runs compute() on one thread; an invocation runs without     *)
(* interruption until it reaches an `await`, where other invocations and   *)
(* store updates may run.  Each action below is one such uninterrupted     *)
(* segment.                                                                *)
(***************************************************************************)
EXTENDS Integers, Sequences, FiniteSets, TLC

VARIABLES
    nodes,        \* documentStore.nodes: node id -> node ("none" = not in the map)
    order,        \* iteration order of documentStore.nodes (Map insertion order)
    cache,        \* geometryCacheStore: node id -> ComputedGeometry (a partial map)
    computing,    \* GeometryComputer.computing
    initialized,  \* GeometryComputer.initialized
    engine,       \* ManifoldEngine: "none" | "pending" | "ok" | "failed" (initPromise / initialized)
    handlers,     \* number of handlers GeometryComputer registered with onCADEvent
    tasks,        \* the compute() invocations issued by callers, each with its chain of awaits
    out,          \* the CAD events emitted by the last step
    returned,     \* the compute() call of a caller that the last step completed, if any
    scenario,     \* what the callers and the kernel of this run do (fixed in a behaviour)
    calls,        \* number of compute() calls issued by callers so far
    asked,        \* the node ids those calls were for
    primed,       \* the features that held a valid cache entry when their sketch was last edited
    edits,        \* number of nodesStore.add / nodesStore.update calls so far
    live,         \* the kernel handles (Manifold objects) created and not deleted
    brep,         \* one Solid object (its authoring arrays, cache and visualization)
    featureOp     \* one call of the feature-level extrude() or revolve() and its kernel handles

vars == <<nodes, order, cache, computing, initialized, engine, handlers, tasks, out,
          returned, scenario, calls, asked, primed, edits, live, brep, featureOp>>

----------------------------------------------------------------------------
(* Bounds of the model *)

NumTasks == 2      \* compute() invocations that callers may have in flight at once
MaxCalls == 3      \* compute() calls callers issue in one behaviour
MaxEdits == 2      \* nodesStore.add / nodesStore.update calls in one behaviour
MaxRev == 1        \* parameter edits of one primitive
StackLimit == 8    \* call-stack frames available to markDirtyWithDependents

TaskIds == 1..NumTasks

----------------------------------------------------------------------------
(* Node graph (core/types.ts) *)

Ids == {"S", "P", "Q", "B", "C", "X", "Z"}

PrimitiveTypes == {"box", "sphere", "cylinder", "cone", "torus"}
BooleanTypes == {"union", "difference", "intersection"}

Distance == 10

NoNode ==
    [type |-> "none", operandIds |-> <<>>, sketchId |-> "", targetBodyId |-> "",
     booleanOp |-> "new", direction |-> "normal", distance |-> 0,
     profiles |-> <<>>, rev |-> 0]

Sketch(profiles) == [NoNode EXCEPT !.type = "sketch", !.profiles = profiles]

Primitive(type) == [NoNode EXCEPT !.type = type]

Boolean(type, operandIds) == [NoNode EXCEPT !.type = type, !.operandIds = operandIds]

Extrude(sketchId, direction, booleanOp, targetBodyId) ==
    [NoNode EXCEPT !.type = "extrude", !.sketchId = sketchId, !.direction = direction,
                   !.distance = Distance, !.booleanOp = booleanOp,
                   !.targetBodyId = targetBodyId]

Revolve(sketchId) == [NoNode EXCEPT !.type = "revolve", !.sketchId = sketchId]

\* The profile lists a sketch may hold (each profile is named by a number).
ProfileChoices == {<<>>, <<1>>, <<2, 3>>}

\* An acyclic document: B and C share the operand P, C references B, and the
\* extrude X joins its extrusion to the body P.
AcyclicGraph ==
    [n \in Ids |->
        CASE n = "S" -> Sketch(<<1>>)
          [] n = "P" -> Primitive("box")
          [] n = "Q" -> Primitive("sphere")
          [] n = "B" -> Boolean("union", <<"P", "Q">>)
          [] n = "C" -> Boolean("difference", <<"B", "P">>)
          [] n = "X" -> Extrude("S", "symmetric", "union", "P")
          [] OTHER -> NoNode]

\* A document with reference cycles: B lists itself, X targets itself.
CyclicGraph ==
    [n \in Ids |->
        CASE n = "S" -> Sketch(<<2, 3>>)
          [] n = "P" -> Primitive("box")
          [] n = "Q" -> Primitive("cone")
          [] n = "B" -> Boolean("union", <<"B", "P">>)
          [] n = "C" -> Boolean("intersection", <<"P", "Q">>)
          [] n = "X" -> Extrude("S", "both", "difference", "X")
          [] OTHER -> NoNode]

\* A document with dangling and malformed references: B lists the absent
\* node Z, C has a single operand, X revolves the sketch.
DanglingGraph ==
    [n \in Ids |->
        CASE n = "S" -> Sketch(<<1>>)
          [] n = "P" -> Primitive("torus")
          [] n = "Q" -> Primitive("cylinder")
          [] n = "B" -> Boolean("union", <<"P", "Z">>)
          [] n = "C" -> Boolean("intersection", <<"Q">>)
          [] n = "X" -> Revolve("S")
          [] OTHER -> NoNode]

\* A document of extrudes in the three direction modes, each a body of its own
DirectionGraph ==
    [n \in Ids |->
        CASE n = "S" -> Sketch(<<2, 3>>)
          [] n = "P" -> Extrude("S", "normal", "new", "")
          [] n = "Q" -> Extrude("S", "both", "new", "")
          [] n = "X" -> Extrude("S", "symmetric", "new", "")
          [] OTHER -> NoNode]

InitialOrder == <<"S", "P", "Q", "B", "C", "X">>

\* The same nodes inserted composites first
ReverseOrder == <<"X", "C", "B", "Q", "P", "S">>

IsBoolean(node) == node.type \in BooleanTypes

SeqToSet(s) == {s[i] : i \in 1..Len(s)}

\* The ids node `id` names as inputs of its computation.
References(id) ==
    LET node == nodes[id] IN
    IF IsBoolean(node) THEN SeqToSet(node.operandIds)
    ELSE IF node.type = "extrude"
         THEN {node.sketchId}
              \cup (IF node.booleanOp # "new" /\ node.targetBodyId # ""
                    THEN {node.targetBodyId} ELSE {})
    ELSE IF node.type = "revolve" THEN {node.sketchId}
    ELSE {}

----------------------------------------------------------------------------
(* Kernel solids, as the expression that built them *)

NullSolid == [op |-> "null", id |-> "", num |-> <<>>, args |-> <<>>]

PrimitiveSolid(id, node) == [op |-> node.type, id |-> id, num |-> <<node.rev>>, args |-> <<>>]

ExtrudedSolid(profile, height) ==
    [op |-> "extrude", id |-> "", num |-> <<profile, height>>, args |-> <<>>]

RevolvedSolid(profile) == [op |-> "revolve", id |-> "", num |-> <<profile>>, args |-> <<>>]

TranslatedSolid(solid, z) == [op |-> "translate", id |-> "", num |-> <<z>>, args |-> <<solid>>]

BooleanSolid(operation, a, b) == [op |-> operation, id |-> "", num |-> <<>>, args |-> <<a, b>>]

\* The solids built on the way to a solid: every kernel call that returned one
\* of them returned a new handle.
RECURSIVE Handles(_)
Handles(solid) ==
    IF solid = NullSolid THEN {}
    ELSE {solid} \cup UNION {Handles(solid.args[i]) : i \in 1..Len(solid.args)}

\* The handles created to build `solid` from the solids `given`
NewHandles(solid, given) == Handles(solid) \ UNION {Handles(g) : g \in given}

\* What the kernel or the packaging does wrong in one step ("ok" = nothing).
Faults == {"ok", "create", "boolean", "extrude", "extrude1", "translate", "union",
           "revolve", "mesh", "bbox", "throw"}

\* A run: the document, whether the application has already completed
\* geometryComputer.initialize() at mount (routes/+page.svelte), the nodes the
\* callers ask compute() for, the nodes they edit or add, the faults the
\* kernel may show, the insertion order of the node map, and whether a caller
\* runs recomputeAll().
ScenarioList ==
    << \* application start-up, with a kernel that may fail to load
      [graph |-> DanglingGraph, started |-> FALSE, roots |-> {"P", "Z"},
       editable |-> {"P"}, deletable |-> {}, faults |-> {"ok"},
       order |-> InitialOrder, sweep |-> FALSE],
      \* overlapping computes of composites that share operands
      [graph |-> AcyclicGraph, started |-> TRUE, roots |-> {"P", "B", "C"},
       editable |-> {"P"}, deletable |-> {}, faults |-> {"ok"},
       order |-> InitialOrder, sweep |-> FALSE],
      \* a sketch and a target body edited under an extrude that depends on them
      [graph |-> AcyclicGraph, started |-> TRUE, roots |-> {"X"},
       editable |-> {"S", "B", "P"}, deletable |-> {}, faults |-> {"ok", "extrude1", "boolean"},
       order |-> InitialOrder, sweep |-> FALSE],
      \* reference cycles
      [graph |-> CyclicGraph, started |-> TRUE, roots |-> {"B", "C", "X"},
       editable |-> {"P"}, deletable |-> {}, faults |-> {"ok"},
       order |-> InitialOrder, sweep |-> FALSE],
      \* malformed references: an unsupported type, an absent operand that is
      \* added later, a boolean with one operand
      [graph |-> DanglingGraph, started |-> TRUE, roots |-> {"S", "B", "C"},
       editable |-> {"Z"}, deletable |-> {}, faults |-> {"ok", "create"},
       order |-> InitialOrder, sweep |-> FALSE],
      \* a kernel that fails while primitives and booleans are built and packaged
      [graph |-> AcyclicGraph, started |-> TRUE, roots |-> {"P", "B"},
       editable |-> {"P"}, deletable |-> {}, faults |-> {"ok", "create", "boolean", "mesh", "bbox", "throw"},
       order |-> InitialOrder, sweep |-> FALSE],
      \* a kernel that fails while a sketch is revolved
      [graph |-> DanglingGraph, started |-> TRUE, roots |-> {"X"},
       editable |-> {"S"}, deletable |-> {}, faults |-> {"ok", "revolve", "union", "throw"},
       order |-> InitialOrder, sweep |-> FALSE],
      \* a full-document sweep, alone or next to a compute of one node
      [graph |-> AcyclicGraph, started |-> TRUE, roots |-> {"P"},
       editable |-> {}, deletable |-> {}, faults |-> {"ok"},
       order |-> InitialOrder, sweep |-> TRUE],
      \* a sweep of the same document built composites first
      [graph |-> AcyclicGraph, started |-> TRUE, roots |-> {},
       editable |-> {}, deletable |-> {}, faults |-> {"ok"},
       order |-> ReverseOrder, sweep |-> TRUE],
      \* a sweep as the first use of the kernel
      [graph |-> DanglingGraph, started |-> FALSE, roots |-> {},
       editable |-> {}, deletable |-> {}, faults |-> {"ok"},
       order |-> InitialOrder, sweep |-> TRUE],
      \* extrudes in every direction mode, with a kernel that may fail to
      \* extrude or to translate
      [graph |-> DirectionGraph, started |-> TRUE, roots |-> {"P", "Q", "X"},
       editable |-> {}, deletable |-> {}, faults |-> {"ok", "extrude1", "translate"},
       order |-> <<"S", "P", "Q", "X">>, sweep |-> FALSE],
      \* an extrude and its sketch, either of which is deleted
      [graph |-> DirectionGraph, started |-> TRUE, roots |-> {"X"},
       editable |-> {}, deletable |-> {"S", "X"}, faults |-> {"ok"},
       order |-> <<"S", "P", "Q", "X">>, sweep |-> FALSE] >>

Scenarios == SeqToSet(ScenarioList)

----------------------------------------------------------------------------
(* ComputedGeometry and Result (core/types.ts) *)

\* An error message is a sequence of strings (text, then the ids it names); <<>> is null.
NoError == <<>>

\* GeometryComputer.createEmptyGeometry
createEmptyGeometry(error) ==
    [manifold |-> NullSolid, mesh |-> FALSE, topology |-> FALSE, bounds |-> FALSE,
     dirty |-> FALSE, error |-> error]

Ok(value) == [success |-> TRUE, value |-> value, error |-> NoError]

Fail(error) == [success |-> FALSE, value |-> createEmptyGeometry(NoError), error |-> error]

NoResult == Fail(<<"<pending>">>)

----------------------------------------------------------------------------
(* geometryCacheStore (stores/cadStore) *)

\* geometryCacheStore.set, without the event it emits
CacheSet(c, nodeId, geometry) ==
    [x \in (DOMAIN c) \cup {nodeId} |-> IF x = nodeId THEN geometry ELSE c[x]]

\* geometryCacheStore.markDirty
markDirty(c, nodeId) ==
    IF nodeId \in DOMAIN c THEN [c EXCEPT ![nodeId].dirty = TRUE] ELSE c

----------------------------------------------------------------------------
(* GeometryComputer.markDirtyWithDependents *)

RECURSIVE markDirtyWithDependents(_, _, _, _)
RECURSIVE ScanDependents(_, _, _, _, _)

\* doc = [nodes, order]: the document the scan reads.
\* st = [cache, overflow]: the cache so far, and whether the recursion has
\* exhausted the call stack (a RangeError that unwinds every frame).
markDirtyWithDependents(doc, st, nodeId, depth) ==
    IF depth > StackLimit
    THEN [st EXCEPT !.overflow = TRUE]
    ELSE ScanDependents(doc, [st EXCEPT !.cache = markDirty(@, nodeId)], nodeId, 1, depth)

\* The loop `for (const [id, node] of doc.nodes)` from its i-th entry on.
ScanDependents(doc, st, nodeId, i, depth) ==
    IF st.overflow \/ i > Len(doc.order)
    THEN st
    ELSE LET id == doc.order[i]
             node == doc.nodes[id]
             s1 == IF IsBoolean(node) /\ nodeId \in SeqToSet(node.operandIds)
                   THEN markDirtyWithDependents(doc, st, id, depth + 1) ELSE st
             s2 == IF ~s1.overflow /\ node.type = "extrude" /\ node.sketchId = nodeId
                   THEN markDirtyWithDependents(doc, s1, id, depth + 1) ELSE s1
             s3 == IF ~s2.overflow /\ node.type = "revolve" /\ node.sketchId = nodeId
                   THEN markDirtyWithDependents(doc, s2, id, depth + 1) ELSE s2
         IN ScanDependents(doc, s3, nodeId, i + 1, depth)

\* The handler GeometryComputer.initialize subscribes, run by emitEvent for a
\* node-created or node-updated event; emitEvent catches what a handler throws.
HandleNodeEvent(doc, c, nodeId) ==
    IF handlers = 0 THEN c
    ELSE markDirtyWithDependents(doc, [cache |-> c, overflow |-> FALSE], nodeId, 1).cache

----------------------------------------------------------------------------
(* Kernel calls of one dispatch (ManifoldEngine), under the fault k *)

\* ManifoldEngine.boolean: the failure message, or NoError when it succeeds
BooleanError(operation, k) ==
    IF k # "boolean" THEN NoError
    ELSE CASE operation = "union" -> <<"Union failed">>
           [] operation = "difference" -> <<"Difference failed">>
           [] operation = "intersection" -> <<"Intersection failed">>
           [] OTHER -> <<"Unknown operation">>

\* GeometryComputer.manifoldToGeometry; threw = the packaging threw
manifoldToGeometry(solid, k) ==
    IF k = "mesh"
    THEN [threw |-> FALSE, geom |-> createEmptyGeometry(<<"Mesh extraction failed">>)]
    ELSE IF k = "throw"
    THEN [threw |-> TRUE, geom |-> createEmptyGeometry(NoError)]
    ELSE [threw |-> FALSE,
          geom |-> [manifold |-> solid, mesh |-> TRUE, topology |-> TRUE,
                    bounds |-> (k # "bbox"), dirty |-> FALSE, error |-> NoError]]

\* GeometryComputer.computePrimitive: everything it does is inside its own try
computePrimitive(nodeId, node, k) ==
    IF k \in {"create", "throw"}
    THEN createEmptyGeometry(<<"Primitive creation failed">>)
    ELSE IF k = "mesh"
    THEN createEmptyGeometry(<<"Mesh extraction failed">>)
    ELSE [manifold |-> PrimitiveSolid(nodeId, node), mesh |-> TRUE, topology |-> TRUE,
          bounds |-> (k # "bbox"), dirty |-> FALSE, error |-> NoError]

\* The left fold of computeBoolean over the operands' solids, from the i-th on
RECURSIVE FoldBoolean(_, _, _, _, _)
FoldBoolean(operation, result, ops, i, k) ==
    IF i > Len(ops) THEN [error |-> NoError, solid |-> result]
    ELSE IF BooleanError(operation, k) # NoError
    THEN [error |-> BooleanError(operation, k), solid |-> NullSolid]
    ELSE FoldBoolean(operation, BooleanSolid(operation, result, ops[i]), ops, i + 1, k)

\* (height, offsetZ) of computeExtrude by direction mode
ExtrudeHeight(distance, direction) ==
    IF direction = "both" THEN distance * 2 ELSE distance

ExtrudeOffsetZ(distance, direction) ==
    IF direction = "both" THEN 0 - distance
    ELSE IF direction = "symmetric" THEN 0 - (distance \div 2)
    ELSE 0

\* The per-profile loop of computeExtrude: the solids pushed to extrusionResults
RECURSIVE ExtrusionResults(_, _, _, _, _)
ExtrusionResults(profiles, i, height, offsetZ, k) ==
    IF i > Len(profiles) THEN <<>>
    ELSE LET failed == k = "extrude" \/ (k = "extrude1" /\ i = 1)
             extruded == ExtrudedSolid(profiles[i], height)
             solid == IF offsetZ # 0 /\ k # "translate"
                      THEN TranslatedSolid(extruded, offsetZ) ELSE extruded
         IN (IF failed THEN <<>> ELSE <<solid>>)
            \o ExtrusionResults(profiles, i + 1, height, offsetZ, k)

\* The per-profile loop of computeRevolve
RECURSIVE RevolutionResults(_, _, _)
RevolutionResults(profiles, i, k) ==
    IF i > Len(profiles) THEN <<>>
    ELSE (IF k = "revolve" THEN <<>> ELSE <<RevolvedSolid(profiles[i])>>)
         \o RevolutionResults(profiles, i + 1, k)

\* "Union all extrusions": a failed union leaves the result as it was
RECURSIVE UnionAll(_, _, _, _)
UnionAll(result, solids, i, k) ==
    IF i > Len(solids) THEN result
    ELSE UnionAll(IF k = "union" THEN result ELSE BooleanSolid("union", result, solids[i]),
                  solids, i + 1, k)

\* computeExtrude / computeRevolve up to the union of the per-profile solids
FeatureSolid(node, k) ==
    LET sketch == IF node.sketchId \in Ids THEN nodes[node.sketchId] ELSE NoNode
        results == IF node.type = "extrude"
                   THEN ExtrusionResults(sketch.profiles, 1,
                                         ExtrudeHeight(node.distance, node.direction),
                                         ExtrudeOffsetZ(node.distance, node.direction), k)
                   ELSE RevolutionResults(sketch.profiles, 1, k)
    IN IF sketch.type # "sketch"
       THEN [error |-> <<"Sketch not found">>, solid |-> NullSolid]
       ELSE IF Len(sketch.profiles) = 0
       THEN [error |-> <<"No closed profiles in sketch">>, solid |-> NullSolid]
       ELSE IF Len(results) = 0
       THEN [error |-> IF node.type = "extrude" THEN <<"Extrusion failed">>
                       ELSE <<"Revolution failed">>,
             solid |-> NullSolid]
       ELSE [error |-> NoError, solid |-> UnionAll(results[1], results, 2, k)]

----------------------------------------------------------------------------
(* GeometryComputer.compute *)

\* One invocation of compute(): the node it was asked for, the node object it
\* read at line 98, where it is suspended, and its locals.
\*   pc: "me_wait"  awaiting initPromise inside ManifoldEngine.initialize
\*       "gc_wait"  GeometryComputer.initialize awaiting manifoldEngine.initialize()
\*       "c_wait"   compute awaiting this.initialize()
\*       "operand"  computeBoolean awaiting this.compute(operandIds[i])
\*       "target"   computeExtrude awaiting this.compute(targetBodyId)
\*       "store"    compute awaiting the compute<Type>() it dispatched to
\*       "sweep"    recomputeAll awaiting this.compute(doc[i]); doc is the node
\*                  map it read at line 522, base the cache it started from
\*   made: the kernel handles the invocation has created so far
Frame(nodeId, pc) ==
    [node |-> nodeId, snap |-> NoNode, pc |-> pc, i |-> 0, ops |-> <<>>,
     acc |-> NullSolid, res |-> NoResult, geom |-> createEmptyGeometry(NoError),
     threw |-> FALSE, joined |-> FALSE, doc |-> <<>>, base |-> <<>>, made |-> {}]

PastGuard == {"operand", "target", "store"}

\* fresh: no node was added or updated since the caller issued the call
IdleTask == [status |-> "idle", root |-> "", stack |-> <<>>, fresh |-> TRUE]

\* status: "done" (the promise resolved to result) or "rejected" (it threw)
NoReturn == [task |-> 0, root |-> "", status |-> "none", result |-> NoResult,
             fresh |-> TRUE]

Top(stack) == stack[Len(stack)]

Pop(stack) == SubSeq(stack, 1, Len(stack) - 1)

\* m = [stack, status, ret, computing, cache, out, live]: one task and the shared state
\* an uninterrupted segment works on.
Machine(t) ==
    [stack |-> tasks[t].stack, status |-> "run", ret |-> NoResult,
     computing |-> computing, cache |-> cache, out |-> <<>>, live |-> live]

Push(m, frame) == [m EXCEPT !.stack = Append(@, frame)]

SetTop(m, frame) == [m EXCEPT !.stack[Len(m.stack)] = frame]

\* The invocation on top of the stack received the new handles `set` from the kernel.
Made(m, set) ==
    [m EXCEPT !.live = @ \cup set, !.stack[Len(m.stack)].made = @ \cup set]

\* compute() returns r: its promise resolves, which hands r to the awaiting
\* caller (the frame below) or, for a call issued from outside, ends the task.
Return(m, r) ==
    IF m.stack = <<>>
    THEN [m EXCEPT !.status = "done", !.ret = r]
    ELSE [m EXCEPT !.stack[Len(m.stack)].res = r]

\* A catch block that reports the failure without recording it.
StoreAndReturn_NoWriteOnThrow(m, nodeId, geom, threw) ==
    IF threw
    THEN Return([m EXCEPT !.computing = @ \ {nodeId}], Fail(<<"Computation error">>))
    ELSE Return([m EXCEPT !.cache = CacheSet(@, nodeId, geom),
                          !.out = Append(@, <<"geometry-computed", nodeId>>),
                          !.computing = @ \ {nodeId}], Ok(geom))

\* A cleanup that is skipped when the dispatch threw.
StoreAndReturn_LeakOnThrow(m, nodeId, geom, threw) ==
    LET stored == IF threw THEN createEmptyGeometry(<<"Computation error">>) ELSE geom
        m1 == [m EXCEPT !.cache = CacheSet(@, nodeId, stored),
                        !.out = Append(@, <<"geometry-computed", nodeId>>),
                        !.computing = IF threw THEN @ ELSE @ \ {nodeId}]
    IN Return(m1, IF threw THEN Fail(<<"Computation error">>) ELSE Ok(stored))

\* A store that, for an error entry, also invalidates every other entry.
StoreAndReturn_InvalidateAllOnError(m, nodeId, geom, threw) ==
    LET stored == IF threw THEN createEmptyGeometry(<<"Computation error">>) ELSE geom
        written == CacheSet(m.cache, nodeId, stored)
        m1 == [m EXCEPT !.cache = IF stored.error = NoError THEN written
                                  ELSE [x \in DOMAIN written |->
                                          IF x = nodeId THEN written[x]
                                          ELSE [written[x] EXCEPT !.dirty = TRUE]],
                        !.out = Append(@, <<"geometry-computed", nodeId>>),
                        !.computing = @ \ {nodeId}]
    IN Return(m1, IF threw THEN Fail(<<"Computation error">>) ELSE Ok(stored))

\* Lines 137-147 of compute: the cache write, the result and the finally block,
\* for a dispatch that returned geom (or threw).
StoreAndReturn(m, nodeId, geom, threw) ==
    LET stored == IF threw THEN createEmptyGeometry(<<"Computation error">>) ELSE geom
        m1 == [m EXCEPT !.cache = CacheSet(@, nodeId, stored),
                        !.out = Append(@, <<"geometry-computed", nodeId>>),
                        !.computing = @ \ {nodeId}]
    IN Return(m1, IF threw THEN Fail(<<"Computation error">>) ELSE Ok(stored))

\* A guard that only sees the nodes of the call's own chain of awaits.
IsComputing_OwnChainOnly(m, nodeId) ==
    nodeId \in m.computing /\ \E i \in 1..Len(m.stack) : m.stack[i].node = nodeId

\* Line 94: the reentrancy guard
IsComputing(m, nodeId) == nodeId \in m.computing

\* A cache check that never hits.
CacheHit_Never(m, nodeId) == FALSE

\* Lines 104-105: the cache check
CacheHit(m, nodeId) == nodeId \in DOMAIN m.cache /\ ~m.cache[nodeId].dirty

RECURSIVE compute(_, _, _)
RECURSIVE Dispatch(_, _, _)

\* compute(nodeId) from line 93 on (the computer is initialized), up to its
\* first suspension.
compute(m, nodeId, k) ==
    IF IsComputing(m, nodeId)
    THEN Return(m, Fail(<<"Already computing this node">>))
    ELSE IF nodes[nodeId].type = "none"
    THEN Return(m, Fail(<<"Node not found", nodeId>>))
    ELSE IF CacheHit(m, nodeId)
    THEN Return(m, Ok(m.cache[nodeId]))
    ELSE Dispatch([m EXCEPT !.computing = @ \cup {nodeId}], nodeId, k)

\* The switch of compute and the synchronous start of the method it calls.
Dispatch(m, nodeId, k) ==
    LET node == nodes[nodeId]
        frame == [Frame(nodeId, "store") EXCEPT !.snap = node]
        feature == FeatureSolid(node, k)
        packed == manifoldToGeometry(feature.solid, k)
    IN CASE node.type \in PrimitiveTypes ->
              Made(Push(m, [frame EXCEPT !.geom = computePrimitive(nodeId, node, k)]),
                   IF k \in {"create", "throw"} THEN {} ELSE {PrimitiveSolid(nodeId, node)})
         [] IsBoolean(node) ->
              IF Len(node.operandIds) < 2
              THEN Push(m, [frame EXCEPT
                       !.geom = createEmptyGeometry(<<"Boolean requires at least 2 operands">>)])
              ELSE compute(Push(m, [frame EXCEPT !.pc = "operand", !.i = 1]),
                           node.operandIds[1], k)
         [] node.type \in {"extrude", "revolve"} ->
              IF feature.error # NoError
              THEN Push(m, [frame EXCEPT !.geom = createEmptyGeometry(feature.error)])
              ELSE IF node.type = "extrude" /\ node.booleanOp # "new"
                      /\ node.targetBodyId # ""
              THEN compute(Made(Push(m, [frame EXCEPT !.pc = "target", !.acc = feature.solid]),
                                Handles(feature.solid)),
                           node.targetBodyId, k)
              ELSE Made(Push(m, [frame EXCEPT !.geom = packed.geom, !.threw = packed.threw]),
                        Handles(feature.solid))
         [] OTHER ->
              StoreAndReturn(m, nodeId,
                             createEmptyGeometry(<<"Unsupported node type", node.type>>),
                             FALSE)

\* A loop that skips an operand that failed and goes on with the next one.
ResumeOperandStep_SkipFailed(m, k) ==
    LET f == Top(m.stack)
        operandId == f.snap.operandIds[f.i]
        failed == ~f.res.success \/ f.res.value.manifold = NullSolid
        ops == IF failed THEN f.ops ELSE Append(f.ops, f.res.value.manifold)
        fold == FoldBoolean(f.snap.type, ops[1], ops, 2, k)
        packed == manifoldToGeometry(fold.solid, k)
    IN IF f.i < Len(f.snap.operandIds)
       THEN compute(SetTop(m, [f EXCEPT !.i = f.i + 1, !.ops = ops, !.res = NoResult]),
                    f.snap.operandIds[f.i + 1], k)
       ELSE IF ops = <<>>
       THEN SetTop(m, [f EXCEPT !.pc = "store",
                  !.geom = createEmptyGeometry(<<"Failed to compute operand", operandId>>)])
       ELSE IF fold.error # NoError
       THEN SetTop(m, [f EXCEPT !.pc = "store", !.ops = ops,
                                !.geom = createEmptyGeometry(fold.error)])
       ELSE Made(SetTop(m, [f EXCEPT !.pc = "store", !.ops = ops,
                                     !.geom = packed.geom, !.threw = packed.threw]),
                 NewHandles(fold.solid, SeqToSet(ops)))

\* computeBoolean resumes with the result of operand i (lines 294-313).
ResumeOperandStep(m, k) ==
    LET f == Top(m.stack)
        operandId == f.snap.operandIds[f.i]
        ops == Append(f.ops, f.res.value.manifold)
        fold == FoldBoolean(f.snap.type, ops[1], ops, 2, k)
        packed == manifoldToGeometry(fold.solid, k)
    IN IF ~f.res.success \/ f.res.value.manifold = NullSolid
       THEN SetTop(m, [f EXCEPT !.pc = "store",
                  !.geom = createEmptyGeometry(<<"Failed to compute operand", operandId>>)])
       ELSE IF f.i < Len(f.snap.operandIds)
       THEN compute(SetTop(m, [f EXCEPT !.i = f.i + 1, !.ops = ops, !.res = NoResult]),
                    f.snap.operandIds[f.i + 1], k)
       ELSE IF fold.error # NoError
       THEN SetTop(m, [f EXCEPT !.pc = "store", !.ops = ops,
                                !.geom = createEmptyGeometry(fold.error)])
       ELSE Made(SetTop(m, [f EXCEPT !.pc = "store", !.ops = ops,
                                     !.geom = packed.geom, !.threw = packed.threw]),
                 NewHandles(fold.solid, SeqToSet(ops)))

\* computeExtrude resumes with the result of the target body (lines 381-393).
ResumeTargetStep(m, k) ==
    LET f == Top(m.stack)
        target == f.res.value.manifold
        result == IF f.res.success /\ target # NullSolid
                     /\ BooleanError(f.snap.booleanOp, k) = NoError
                  THEN BooleanSolid(f.snap.booleanOp, target, f.acc)
                  ELSE f.acc
        packed == manifoldToGeometry(result, k)
    IN Made(SetTop(m, [f EXCEPT !.pc = "store", !.geom = packed.geom, !.threw = packed.threw]),
            {result} \ {f.acc})

\* compute resumes after its dispatch (lines 137-147).
StoreStep(m) ==
    LET f == Top(m.stack)
    IN StoreAndReturn([m EXCEPT !.stack = Pop(@)], f.node, f.geom, f.threw)

\* compute(nodeId) as a nested call, from line 85: lines 86-91 with
\* GeometryComputer.initialize and ManifoldEngine.initialize (lines 53-62) when
\* the computer is not yet initialized, else from line 93.
Enter(m, nodeId, k) ==
    LET frame == Frame(nodeId, "me_wait")
    IN IF initialized THEN compute(m, nodeId, k)
       ELSE IF engine = "ok"
       THEN Push(m, [frame EXCEPT !.pc = "gc_wait", !.res = Ok(createEmptyGeometry(NoError))])
       ELSE IF engine = "none" THEN Push(m, frame)
       ELSE Push(m, [frame EXCEPT !.joined = TRUE])

\* ManifoldEngine.initPromise after the segment that left the machine m: line 62
\* starts doInitialize for the first caller.
EngineAfter(m) ==
    IF engine = "none" /\ m.stack # <<>> /\ Top(m.stack).pc = "me_wait"
    THEN "pending" ELSE engine

\* The loop of recomputeAll from the i-th node of its document on (lines
\* 524-529), up to the next suspension; the sweep's frame is on top of the stack.
RECURSIVE Sweep(_, _, _)
Sweep(m, i, k) ==
    LET f == Top(m.stack)
    IN IF i > Len(f.doc)
       THEN [m EXCEPT !.stack = Pop(@), !.status = "done", !.ret = NoResult]
       ELSE IF CacheHit(m, f.doc[i])
       THEN Sweep(m, i + 1, k)
       ELSE Enter(SetTop(m, [f EXCEPT !.i = i, !.res = NoResult]), f.doc[i], k)

----------------------------------------------------------------------------
(* Solid (the BREP solid class): authoring *)

\* A Solid before any triangle is authored.
\*   verts: _vertProperties as points; the code's vertex index i is verts[i + 1]
\*   triVerts: _triVerts as triples of vertex indices; triIDs: _triIDs
\*   names: _idToFaceName, the id of a face name being its position
\*   dirty, manifold: _dirty and _manifold (0 = null, else the handle)
\*   faces, edges, vertices: what visualize() built
\*   visualized: faces, edges and vertices are those of the triangles held now
\*   again: the latest visualize() replaced what an earlier visualize() of the
\*     same triangles had built; meshReversed: the triangle order of the
\*     mesh the kernel returned to the latest visualize()
\*   shape, shells: what was authored; builds: handles built so far;
\*   builtTris: triangles authored when the handle was built;
\*   repaired: the winding repair went past its early return since the last
\*     addTriangle
NoSolid ==
    [shape |-> "none", verts |-> <<>>, triVerts |-> <<>>, triIDs |-> <<>>, names |-> <<>>,
     dirty |-> TRUE, manifold |-> 0, faces |-> <<>>, edges |-> <<>>, vertices |-> <<>>,
     shells |-> 0, builds |-> 0, builtTris |-> 0, repaired |-> FALSE, visualized |-> FALSE,
     again |-> FALSE, meshReversed |-> FALSE]

\* Position of x in seq from the i-th element on, 0 if absent
RECURSIVE IndexOf(_, _, _)
IndexOf(seq, x, i) ==
    IF i > Len(seq) THEN 0 ELSE IF seq[i] = x THEN i ELSE IndexOf(seq, x, i + 1)

\* The elements of seq in order of first occurrence (the iteration order of
\* the keys of a Map)
Dedup(seq) ==
    LET first == SelectSeq([i \in 1..Len(seq) |-> i],
                           LAMBDA i : \A j \in 1..(i - 1) : seq[j] # seq[i])
    IN [k \in 1..Len(first) |-> seq[first[k]]]

\* Every point gets a vertex of its own.
getPointIndex_NoWeld(verts, p) == [verts |-> Append(verts, p), idx |-> Len(verts)]

\* Solid._getPointIndex: the index of the vertex at p, created if there is none
getPointIndex(verts, p) ==
    IF IndexOf(verts, p, 1) # 0
    THEN [verts |-> verts, idx |-> IndexOf(verts, p, 1) - 1]
    ELSE [verts |-> Append(verts, p), idx |-> Len(verts)]

\* Solid.addTriangle, with _getOrCreateID
addTriangle(s, tri) ==
    LET names == IF IndexOf(s.names, tri.name, 1) = 0 THEN Append(s.names, tri.name)
                 ELSE s.names
        g0 == getPointIndex(s.verts, tri.p[1])
        g1 == getPointIndex(g0.verts, tri.p[2])
        g2 == getPointIndex(g1.verts, tri.p[3])
    IN [s EXCEPT !.names = names, !.verts = g2.verts,
                 !.triVerts = Append(@, <<g0.idx, g1.idx, g2.idx>>),
                 !.triIDs = Append(@, IndexOf(names, tri.name, 1)),
                 !.dirty = TRUE, !.visualized = FALSE, !.again = FALSE]

RECURSIVE addTriangles(_, _, _)
addTriangles(s, tris, i) ==
    IF i > Len(tris) THEN s ELSE addTriangles(addTriangle(s, tris[i]), tris, i + 1)

Tri(name, p0, p1, p2) == [name |-> name, p |-> <<p0, p1, p2>>]

\* The parameters of the box: width, height, depth
BoxParams == [width |-> 20, height |-> 20, depth |-> 20]

\* The twelve addTriangle calls of BoxSolid._generateBox
BoxTriangles(x, y, z) ==
    LET p000 == <<0, 0, 0>>
        p100 == <<x, 0, 0>>
        p010 == <<0, y, 0>>
        p110 == <<x, y, 0>>
        p001 == <<0, 0, z>>
        p101 == <<x, 0, z>>
        p011 == <<0, y, z>>
        p111 == <<x, y, z>>
    IN << Tri("Box_NX", p000, p001, p011), Tri("Box_NX", p000, p011, p010),
          Tri("Box_PX", p100, p110, p111), Tri("Box_PX", p100, p111, p101),
          Tri("Box_NY", p000, p100, p101), Tri("Box_NY", p000, p101, p001),
          Tri("Box_PY", p010, p011, p111), Tri("Box_PY", p010, p111, p110),
          Tri("Box_NZ", p000, p010, p110), Tri("Box_NZ", p000, p110, p100),
          Tri("Box_PZ", p001, p101, p111), Tri("Box_PZ", p001, p111, p011) >>

\* BoxSolid._generateBox with center = true
generateBox(s, params) ==
    LET t == addTriangles(s, BoxTriangles(params.width, params.height, params.depth), 1)
    IN [t EXCEPT !.verts = [i \in DOMAIN t.verts |->
                              << t.verts[i][1] - (params.width \div 2),
                                 t.verts[i][2] - (params.height \div 2),
                                 t.verts[i][3] - (params.depth \div 2) >>],
                 !.shape = "box", !.shells = 1]

\* A shell authored by a caller of addTriangle: a tetrahedron at x = o, one
\* face name per triangle
TetraTriangles(o, names) ==
    LET a == <<o, 0, 0>>
        b == <<o + 1, 0, 0>>
        c == <<o, 1, 0>>
        d == <<o, 0, 1>>
    IN << Tri(names[1], a, c, b), Tri(names[2], a, b, d),
          Tri(names[3], a, d, c), Tri(names[4], b, c, d) >>

TetraNames == << <<"T_A", "T_B", "T_C", "T_D">>, <<"U_A", "U_B", "U_C", "U_D">>,
                 <<"V_A", "V_B", "V_C", "V_D">> >>

\* The ring of a cylinder in the (x, z) plane, by increasing angle; n is
\* Math.max(8, segments) = 8, the coordinates are rounded to integers
Ring == << <<3, 1>>, <<1, 3>>, <<0 - 1, 3>>, <<0 - 3, 1>>,
           <<0 - 3, 0 - 1>>, <<0 - 1, 0 - 3>>, <<1, 0 - 3>>, <<3, 0 - 1>> >>

\* The parameters of the cylinder
CylinderParams == [height |-> 2, center |-> TRUE]

\* The addTriangle calls of CylinderSolid._generateCylinder: the bottom cap,
\* the top cap, the side
CylinderTriangles(params) ==
    LET n == Len(Ring)
        y0 == IF params.center THEN 0 - (params.height \div 2) ELSE 0
        y1 == IF params.center THEN params.height \div 2 ELSE params.height
        ring0 == [i \in 1..n |-> <<Ring[i][1], y0, Ring[i][2]>>]
        ring1 == [i \in 1..n |-> <<Ring[i][1], y1, Ring[i][2]>>]
        bottom == [i \in 1..n |-> Tri("Cylinder_Bottom", <<0, y0, 0>>, ring0[(i % n) + 1], ring0[i])]
        top == [i \in 1..n |-> Tri("Cylinder_Top", <<0, y1, 0>>, ring1[i], ring1[(i % n) + 1])]
        side == [k \in 1..(2 * n) |->
                   LET i == ((k - 1) \div 2) + 1
                       j == (i % n) + 1
                   IN IF k % 2 = 1
                      THEN Tri("Cylinder_Side", ring0[i], ring0[j], ring1[j])
                      ELSE Tri("Cylinder_Side", ring0[i], ring1[j], ring1[i])]
    IN bottom \o top \o side

\* CylinderSolid._generateCylinder
generateCylinder(s, params) ==
    [addTriangles(s, CylinderTriangles(params), 1) EXCEPT !.shape = "cylinder", !.shells = 1]

\* The triangles as a caller passes them: started at the rot-th one, all of
\* them reversed if inverted, and those at the positions in flips reversed
Authored(tris, inverted, flips, rot) ==
    [i \in 1..Len(tris) |->
        LET tri == tris[((i - 1 + rot) % Len(tris)) + 1]
        IN IF inverted # (i \in flips)
           THEN [tri EXCEPT !.p = <<@[1], @[3], @[2]>>] ELSE tri]

----------------------------------------------------------------------------
(* Solid: winding repair, signed volume, build *)

\* The e-th directed edge of a triangle: (i0,i1), (i1,i2), (i2,i0)
DirectedEdge(tri, e) == <<tri[e], tri[(e % 3) + 1]>>

\* ukey: the key of an undirected edge
ukey(a, b, NV) == IF a < b THEN a * NV + b ELSE b * NV + a

\* NV of the code: Math.max(1, numVerts)
VertexBase(verts) == IF Len(verts) < 1 THEN 1 ELSE Len(verts)

\* The uses of edges by triangles in the order the code records them: by
\* triangle, then by edge
EdgeUses(tris, NV) ==
    [j \in 1..(3 * Len(tris)) |->
        LET ti == ((j - 1) \div 3) + 1
            ab == DirectedEdge(tris[ti], ((j - 1) % 3) + 1)
        IN [tri |-> ti, a |-> ab[1], b |-> ab[2], key |-> ukey(ab[1], ab[2], NV)]]

\* The entries of the edge map under key k
UsesOf(uses, k) == SelectSeq(uses, LAMBDA u : u.key = k)

\* Solid._isCoherentlyOrientedManifold
isCoherentlyOrientedManifold(tris, NV) ==
    LET uses == EdgeUses(tris, NV)
    IN /\ Len(tris) # 0
       /\ \A j \in DOMAIN uses :
             LET arr == UsesOf(uses, uses[j].key)
             IN /\ Len(arr) = 2
                /\ arr[1].a = arr[2].b
                /\ arr[1].b = arr[2].a

FlipTriangle(tri) == <<tri[1], tri[3], tri[2]>>

RECURSIVE VisitNeighbours(_, _, _, _, _, _)
\* `for (const entry of adj)` in the repair, from the j-th entry on: an
\* unvisited neighbour recorded with the same direction (a,b) is flipped, then
\* marked visited and pushed.
VisitNeighbours(st, adj, j, t, a, b) ==
    IF j > Len(adj) THEN st
    ELSE LET n == adj[j].tri
         IN IF n = t \/ n \in st.visited
            THEN VisitNeighbours(st, adj, j + 1, t, a, b)
            ELSE VisitNeighbours(
                    [tris |-> IF adj[j].a = a /\ adj[j].b = b
                              THEN [st.tris EXCEPT ![n] = FlipTriangle(@)] ELSE st.tris,
                     visited |-> st.visited \cup {n},
                     stack |-> Append(st.stack, n)],
                    adj, j + 1, t, a, b)

\* `for (let e = 0; e < 3; e++)` for the popped triangle t, from edge e on;
\* `uses` is the edge map as recorded before the walk.
RECURSIVE VisitEdges(_, _, _, _, _)
VisitEdges(st, uses, NV, t, e) ==
    IF e > 3 THEN st
    ELSE LET ab == DirectedEdge(st.tris[t], e)
             adj == UsesOf(uses, ukey(ab[1], ab[2], NV))
         IN VisitEdges(IF Len(adj) < 2 THEN st
                       ELSE VisitNeighbours(st, adj, 1, t, ab[1], ab[2]),
                       uses, NV, t, e + 1)

\* The seed loop and the stack loop of the repair
RECURSIVE FloodFill(_, _, _, _)
FloodFill(st, uses, NV, seed) ==
    IF st.stack # <<>>
    THEN FloodFill(VisitEdges([st EXCEPT !.stack = SubSeq(@, 1, Len(@) - 1)], uses, NV,
                              st.stack[Len(st.stack)], 1),
                   uses, NV, seed)
    ELSE IF seed > Len(st.tris) THEN st
    ELSE IF seed \in st.visited THEN FloodFill(st, uses, NV, seed + 1)
    ELSE FloodFill([st EXCEPT !.visited = @ \cup {seed}, !.stack = <<seed>>],
                   uses, NV, seed + 1)

\* A repair that changes no triangle.
fixTriangleWindingsByAdjacency_NoRepair(tris, NV) ==
    IF isCoherentlyOrientedManifold(tris, NV) \/ Len(tris) = 0
    THEN [tris |-> tris, ran |-> FALSE]
    ELSE [tris |-> tris, ran |-> TRUE]

\* Solid._fixTriangleWindingsByAdjacency: the repaired triangles, and whether
\* it went past its early return
fixTriangleWindingsByAdjacency(tris, NV) ==
    IF isCoherentlyOrientedManifold(tris, NV) \/ Len(tris) = 0
    THEN [tris |-> tris, ran |-> FALSE]
    ELSE [tris |-> FloodFill([tris |-> tris, visited |-> {}, stack |-> <<>>],
                             EdgeUses(tris, NV), NV, 1).tris,
          ran |-> TRUE]

\* p0 . (p1 x p2)
TripleProduct(p0, p1, p2) ==
    p0[1] * (p1[2] * p2[3] - p1[3] * p2[2])
    - p0[2] * (p1[1] * p2[3] - p1[3] * p2[1])
    + p0[3] * (p1[1] * p2[2] - p1[2] * p2[1])

\* Solid._computeSignedVolume before its division by 6
RECURSIVE SignedVolume6(_, _, _)
SignedVolume6(verts, tris, t) ==
    IF t > Len(tris) THEN 0
    ELSE TripleProduct(verts[tris[t][1] + 1], verts[tris[t][2] + 1], verts[tris[t][3] + 1])
         + SignedVolume6(verts, tris, t + 1)

\* What _manifoldize hands to the kernel: the triangles after the winding
\* repair and after the flip of all of them when the signed volume is negative
Oriented(verts, tris) ==
    LET fixed == fixTriangleWindingsByAdjacency(tris, VertexBase(verts))
    IN [tris |-> IF SignedVolume6(verts, fixed.tris, 1) < 0
                 THEN [t \in DOMAIN fixed.tris |-> FlipTriangle(fixed.tris[t])]
                 ELSE fixed.tris,
        ran |-> fixed.ran]

\* Solid._manifoldize; ok = the Manifold constructor accepts the mesh. The
\* result is the solid, the kernel's live handles and whether it threw.
manifoldize(s, lv, ok) ==
    IF ~s.dirty /\ s.manifold # 0 THEN [s |-> s, live |-> lv, threw |-> FALSE]
    ELSE IF Len(s.triVerts) = 0 THEN [s |-> s, live |-> lv, threw |-> TRUE]
    ELSE LET oriented == Oriented(s.verts, s.triVerts)
             s1 == [s EXCEPT !.triVerts = oriented.tris,
                             !.dirty = IF oriented.ran THEN TRUE ELSE @,
                             !.repaired = oriented.ran]
         IN IF ok
            THEN [s |-> [s1 EXCEPT !.manifold = s.builds + 1, !.dirty = FALSE,
                                   !.builds = s.builds + 1,
                                   !.builtTris = Len(s.triVerts)],
                  live |-> lv \cup {s.builds + 1}, threw |-> FALSE]
            ELSE [s |-> s1, live |-> lv, threw |-> TRUE]

\* Solid.free
free(s, lv) ==
    [s |-> [s EXCEPT !.manifold = 0, !.dirty = TRUE], live |-> lv \ {s.manifold},
     threw |-> FALSE]

----------------------------------------------------------------------------
(* Solid.visualize *)

\* m.getMesh(): the kernel returns the triangles it was given, in the order it
\* was given them or in the reverse order
getMesh(s, reversed) ==
    LET n == Len(s.triVerts)
    IN [vp |-> s.verts,
        tv |-> [t \in 1..n |-> s.triVerts[IF reversed THEN n + 1 - t ELSE t]],
        faceID |-> [t \in 1..n |-> s.triIDs[IF reversed THEN n + 1 - t ELSE t]]]

\* The keys of faceTris in insertion order: one CADFace per face name
FaceNames(mesh, names) == Dedup([t \in 1..Len(mesh.tv) |-> names[mesh.faceID[t]]])

\* The segments of pairToEdges in the order they are pushed: for each edge
\* used by exactly two triangles of differently named faces, the pair of face
\* names and the segment [min, max]
Segments(mesh, names) ==
    LET NV == VertexBase(mesh.vp)
        uses == EdgeUses(mesh.tv, NV)
        keys == Dedup([j \in 1..Len(uses) |-> uses[j].key])
        shared == SelectSeq(keys, LAMBDA k :
                     /\ Len(UsesOf(uses, k)) = 2
                     /\ mesh.faceID[UsesOf(uses, k)[1].tri] # mesh.faceID[UsesOf(uses, k)[2].tri])
    IN [j \in 1..Len(shared) |->
          LET arr == UsesOf(uses, shared[j])
          IN [pair |-> {names[mesh.faceID[arr[1].tri]], names[mesh.faceID[arr[2].tri]]},
              seg |-> IF arr[1].a < arr[1].b THEN <<arr[1].a, arr[1].b>>
                      ELSE <<arr[1].b, arr[1].a>>]]

\* The keys of the adjacency map of a bucket, in insertion order
AdjKeys(edgeList) ==
    Dedup([j \in 1..(2 * Len(edgeList)) |-> edgeList[((j - 1) \div 2) + 1][((j - 1) % 2) + 1]])

\* adj.get(x) in insertion order
Nbrs(edgeList, x) ==
    LET touching == SelectSeq(edgeList, LAMBDA e : e[1] = x \/ e[2] = x)
    IN Dedup([j \in 1..Len(touching) |->
                 IF touching[j][1] = x THEN touching[j][2] ELSE touching[j][1]])

\* ek: the key of a consumed segment
ek(u, v) == IF u < v THEN <<u, v>> ELSE <<v, u>>

\* `while (true)` of the chain walk
RECURSIVE Walk(_, _, _, _, _)
Walk(edgeList, visited, chain, prev, curr) ==
    LET open == SelectSeq(Nbrs(edgeList, curr),
                          LAMBDA n : ek(curr, n) \notin visited /\ n # prev)
    IN IF open = <<>> THEN [chain |-> chain, visited |-> visited]
       ELSE Walk(edgeList, visited \cup {ek(curr, open[1])}, Append(chain, open[1]),
                 curr, open[1])

\* `for (const [start, nbrs] of adj)`: the polylines of one bucket, walked from
\* the vertices that have exactly one neighbour
RECURSIVE WalkChains(_, _, _, _)
WalkChains(edgeList, keys, i, visited) ==
    IF i > Len(keys) THEN <<>>
    ELSE LET nbrs == Nbrs(edgeList, keys[i])
             w == Walk(edgeList, visited, <<keys[i]>>, 0 - 1, keys[i])
         IN IF Len(nbrs) # 1 \/ ek(keys[i], nbrs[1]) \in visited
            THEN WalkChains(edgeList, keys, i + 1, visited)
            ELSE (IF Len(w.chain) >= 2 THEN <<w.chain>> ELSE <<>>)
                 \o WalkChains(edgeList, keys, i + 1, w.visited)

\* The segments of the bucket of a face pair
Bucket(segments, pair) ==
    LET own == SelectSeq(segments, LAMBDA x : x.pair = pair)
    IN [j \in 1..Len(own) |-> own[j].seg]

\* The CADEdge objects: for each bucket in insertion order, its polylines
RECURSIVE ExtractEdges(_, _, _)
ExtractEdges(segments, pairs, i) ==
    IF i > Len(pairs) THEN <<>>
    ELSE LET bucket == Bucket(segments, pairs[i])
             chains == WalkChains(bucket, AdjKeys(bucket), 1, {})
         IN [j \in 1..Len(chains) |-> [pair |-> pairs[i], chain |-> chains[j]]]
            \o ExtractEdges(segments, pairs, i + 1)

\* The CADVertex objects: the distinct end points of the polylines
EdgeVertices(mesh, edges) ==
    Dedup([j \in 1..(2 * Len(edges)) |->
             LET chain == edges[((j - 1) \div 2) + 1].chain
             IN mesh.vp[(IF j % 2 = 1 THEN chain[1] ELSE chain[Len(chain)]) + 1]])

\* Solid.visualize without lines 1490-1496: what an earlier call built stays
visualize_KeepPrior(this, accepts, reversed, constructing) ==
    \E built \in {manifoldize([this EXCEPT !.visualized = FALSE, !.again = FALSE],
                               live, accepts)} :
    \E kernelMesh \in {getMesh(built.s, reversed)} :
    \E segs \in {Segments(kernelMesh, built.s.names)} :
    \E polylines \in {ExtractEdges(segs, Dedup([j \in 1..Len(segs) |-> segs[j].pair]), 1)} :
        /\ live' = built.live
        /\ brep' = IF built.threw
                   THEN (IF constructing THEN NoSolid ELSE built.s)
                   ELSE [built.s EXCEPT !.faces = @ \o FaceNames(kernelMesh, built.s.names),
                                        !.edges = @ \o polylines,
                                        !.vertices = @ \o EdgeVertices(kernelMesh, polylines),
                                        !.visualized = TRUE,
                                        !.again = this.visualized,
                                        !.meshReversed = reversed]

\* Solid.visualize on the Solid `this`, as a step of the Solid and the kernel.
\* When it throws inside a constructor, no object comes into being.
visualize(this, accepts, reversed, constructing) ==
    \E built \in {manifoldize([this EXCEPT !.faces = <<>>, !.edges = <<>>,
                                           !.vertices = <<>>, !.visualized = FALSE,
                                           !.again = FALSE],
                               live, accepts)} :
    \E kernelMesh \in {getMesh(built.s, reversed)} :
    \E segs \in {Segments(kernelMesh, built.s.names)} :
    \E polylines \in {ExtractEdges(segs, Dedup([j \in 1..Len(segs) |-> segs[j].pair]), 1)} :
        /\ live' = built.live
        /\ brep' = IF built.threw
                   THEN (IF constructing THEN NoSolid ELSE built.s)
                   ELSE [built.s EXCEPT !.faces = FaceNames(kernelMesh, built.s.names),
                                        !.edges = polylines,
                                        !.vertices = EdgeVertices(kernelMesh, polylines),
                                        !.visualized = TRUE,
                                        !.again = this.visualized,
                                        !.meshReversed = reversed]

----------------------------------------------------------------------------
(* Feature operations (tools/FeatureOperations.ts) *)

\* The planes a sketch may lie on
FeaturePlanes ==
    {[normal |-> n, origin |-> o] : n \in {<<0, 0, 1>>, <<1, 0, 0>>},
                                    o \in {<<0, 0, 0>>, <<0, 0, 5>>}}

\* Most profiles a caller passes to extrude() or revolve()
MaxFeatureProfiles == 2

\* The profile lists a caller may pass: each profile is its number of points
FeatureProfiles == UNION {[1..n -> {2, 4}] : n \in 0..MaxFeatureProfiles}

\* The kernel call that fails while one profile is processed ("ok" = none)
FeatureFaults == {"ok", "extrude", "back", "revolve", "rotate", "translate", "union",
                  "boolean"}

\* One call of extrude() or revolve(): its options (the axis of a revolve
\* runs along x, along y, or has length 0), where it is ("idle", "init"
\* = awaiting manifoldEngine.initialize(), "done"), resultManifold, the handles
\* that exist and are not deleted, the next handle the kernel hands out, the
\* Result it returned, and whether a deleted handle was passed to the kernel
\* or returned to the caller
NoFeature ==
    [pc |-> "idle", op |-> "none", profiles |-> <<>>,
     plane |-> [normal |-> <<0, 0, 1>>, origin |-> <<0, 0, 0>>], axis |-> "x",
     distanceBack |-> 0, targetSolid |-> 0, resultManifold |-> 0,
     alive |-> {}, next |-> 1, ret |-> [success |-> FALSE, value |-> 0],
     misused |-> FALSE]

\* A kernel call on the handles `operands`: when it succeeds it returns a new
\* handle. A deleted operand is recorded; what the call then does is open.
KernelCall(f, operands, ok) ==
    [f |-> [f EXCEPT !.alive = IF ok THEN @ \cup {f.next} ELSE @,
                     !.next = IF ok THEN @ + 1 ELSE @,
                     !.misused = @ \/ ~(operands \subseteq f.alive)],
     success |-> ok,
     value |-> IF ok THEN f.next ELSE 0]

\* manifoldEngine.deleteManifold(solid)
deleteManifold(f, solid) == [f EXCEPT !.alive = @ \ {solid}]

\* transformToPlane(solid, plane): rotate when the normal is not (0, 0, 1),
\* translate when the origin is not (0, 0, 0), else the handle it was given
transformToPlane(f, solid, plane, k) ==
    LET turns == plane.normal # <<0, 0, 1>>
        moves == plane.origin # <<0, 0, 0>>
        rotated == IF turns THEN KernelCall(f, {solid}, k # "rotate")
                   ELSE [f |-> f, success |-> TRUE, value |-> solid]
        moved == KernelCall(rotated.f, {rotated.value}, k # "translate")
        dropped == IF rotated.value # solid THEN deleteManifold(moved.f, rotated.value)
                   ELSE moved.f
    IN IF ~rotated.success THEN [f |-> rotated.f, success |-> FALSE, value |-> 0]
       ELSE IF ~moves THEN rotated
       ELSE [f |-> dropped, success |-> moved.success, value |-> moved.value]

\* `return { success, value }` of extrude() or revolve()
FeatureReturn(f, success, value) ==
    [f EXCEPT !.pc = "done", !.ret = [success |-> success, value |-> value],
              !.misused = @ \/ (success /\ value \notin f.alive)]

\* "Combine with previous profiles" and the rest of the loop over the profiles
\* from the i-th on, given what became of the i-th profile's solid
RECURSIVE FeatureLoop(_, _, _)
Combine(f, made, transformed, i, ks) ==
    LET released == deleteManifold(transformed.f, made)
        joined == KernelCall(released, {f.resultManifold, transformed.value},
                             ks[i] # "union")
    IN IF ~transformed.success THEN FeatureReturn(transformed.f, FALSE, 0)
       ELSE IF f.resultManifold = 0
       THEN FeatureLoop([released EXCEPT !.resultManifold = transformed.value], i + 1, ks)
       ELSE IF joined.success
       THEN FeatureLoop([deleteManifold(deleteManifold(joined.f, f.resultManifold),
                                        transformed.value)
                           EXCEPT !.resultManifold = joined.value], i + 1, ks)
       ELSE FeatureLoop(joined.f, i + 1, ks)

\* One profile of extrude(): lines 76-132
ExtrudeProfile(f, i, ks) ==
    LET k == ks[i]
        forward == KernelCall(f, {}, k # "extrude")
        backward == KernelCall(forward.f, {}, k # "back")
        both == KernelCall(backward.f, {forward.value, backward.value}, k # "union")
        extruded == IF f.distanceBack = 0 THEN forward
                    ELSE IF ~backward.success THEN [backward EXCEPT !.value = forward.value]
                    ELSE IF ~both.success THEN [both EXCEPT !.value = forward.value]
                    ELSE [f |-> deleteManifold(deleteManifold(both.f, forward.value),
                                               backward.value),
                          success |-> TRUE, value |-> both.value]
    IN IF ~forward.success THEN FeatureReturn(forward.f, FALSE, 0)
       ELSE Combine(extruded.f, extruded.value,
                    transformToPlane(extruded.f, extruded.value, f.plane, k), i, ks)

\* One profile of revolve(): lines 201-302
RevolveProfile(f, i, ks) ==
    LET k == ks[i]
        made == KernelCall(f, {}, k # "revolve")
        turned == KernelCall(made.f, {made.value}, k # "rotate")
        aligned == IF f.axis # "y" \/ ~turned.success
                   THEN [f |-> IF f.axis = "y" THEN turned.f ELSE made.f,
                         value |-> made.value]
                   ELSE [f |-> deleteManifold(turned.f, made.value), value |-> turned.value]
        shifted == KernelCall(aligned.f, {aligned.value}, k # "translate")
        revolved == IF ~shifted.success THEN [f |-> shifted.f, value |-> aligned.value]
                    ELSE [f |-> deleteManifold(shifted.f, aligned.value),
                          value |-> shifted.value]
    IN IF f.axis = "point" THEN FeatureReturn(f, FALSE, 0)
       ELSE IF ~made.success THEN FeatureReturn(made.f, FALSE, 0)
       ELSE Combine(revolved.f, revolved.value,
                    transformToPlane(revolved.f, revolved.value, f.plane, k), i, ks)

\* The loop over the profiles, then lines 135-148: the boolean with the target
FeatureLoop(f, i, ks) ==
    LET applied == KernelCall(f, {f.targetSolid, f.resultManifold}, ks[i] # "boolean")
    IN IF i <= Len(f.profiles)
       THEN IF f.profiles[i] < 3 THEN FeatureLoop(f, i + 1, ks)
            ELSE IF f.op = "extrude" THEN ExtrudeProfile(f, i, ks)
            ELSE RevolveProfile(f, i, ks)
       ELSE IF f.resultManifold = 0 THEN FeatureReturn(f, FALSE, 0)
       ELSE IF f.targetSolid # 0 /\ applied.success
       THEN FeatureReturn(deleteManifold(applied.f, f.resultManifold), TRUE, applied.value)
       ELSE FeatureReturn(IF f.targetSolid # 0 THEN applied.f ELSE f, TRUE,
                          f.resultManifold)

----------------------------------------------------------------------------
(* Initial state and actions *)

EmptyCache == [x \in {} |-> createEmptyGeometry(NoError)]

Init ==
    /\ scenario \in Scenarios
    /\ nodes = scenario.graph
    /\ order = scenario.order
    /\ cache = EmptyCache
    /\ computing = {}
    /\ initialized = scenario.started
    /\ engine = IF scenario.started THEN "ok" ELSE "none"
    /\ handlers = IF scenario.started THEN 1 ELSE 0
    /\ tasks = [t \in TaskIds |-> IdleTask]
    /\ out = <<>>
    /\ returned = NoReturn
    /\ calls = 0
    /\ asked = {}
    /\ primed = {}
    /\ edits = 0
    /\ live = {}
    /\ brep = NoSolid
    /\ featureOp = NoFeature

\* The task and the shared state after an uninterrupted segment of task t.
Commit(t, root, machine) ==
    \E m \in {machine} :
        /\ tasks' = [tasks EXCEPT ![t] = IF m.status = "run"
                                         THEN [status |-> "run", root |-> root,
                                               stack |-> m.stack, fresh |-> tasks[t].fresh]
                                         ELSE IdleTask]
        /\ returned' = IF m.status = "run" THEN NoReturn
                       ELSE [task |-> t, root |-> root, status |-> m.status,
                             result |-> m.ret, fresh |-> tasks[t].fresh]
        /\ computing' = m.computing
        /\ cache' = m.cache
        /\ out' = m.out
        /\ live' = m.live
        /\ UNCHANGED <<brep, featureOp>>

Running(t) == tasks[t].status = "run"

AtPc(t, pc) == Running(t) /\ tasks[t].stack # <<>> /\ Top(tasks[t].stack).pc = pc

\* A caller issues compute(nodeId): lines 85-91 when the computer is not yet
\* initialized (with ManifoldEngine.initialize lines 53-62), else from line 93.
Start(t, nodeId, k) ==
    LET fresh == [Machine(t) EXCEPT !.stack = <<>>]
        frame == Frame(nodeId, "me_wait")
    IN /\ ~Running(t)
       /\ \A u \in TaskIds : u < t => Running(u)
       /\ nodeId \in scenario.roots
       /\ k \in scenario.faults
       /\ calls < MaxCalls
       /\ calls' = calls + 1
       /\ asked' = asked \cup {nodeId}
       /\ UNCHANGED <<nodes, order, initialized, handlers, scenario, primed, edits>>
       /\ IF initialized
          THEN /\ Commit(t, nodeId, compute(fresh, nodeId, k))
               /\ UNCHANGED engine
          ELSE IF engine = "ok"
          THEN /\ Commit(t, nodeId,
                         Push(fresh, [frame EXCEPT !.pc = "gc_wait",
                                        !.res = Ok(createEmptyGeometry(NoError))]))
               /\ UNCHANGED engine
          ELSE IF engine = "none"
          THEN /\ Commit(t, nodeId, Push(fresh, frame))
               /\ engine' = "pending"
          ELSE /\ Commit(t, nodeId, Push(fresh, [frame EXCEPT !.joined = TRUE]))
               /\ UNCHANGED engine

\* doInitialize settles (ManifoldEngine.ts lines 74-170).
EngineInitOk ==
    /\ engine = "pending"
    /\ engine' = "ok"
    /\ out' = <<>>
    /\ returned' = NoReturn
    /\ UNCHANGED <<nodes, order, cache, computing, initialized, handlers, tasks, scenario, calls, asked, primed, edits, live, brep, featureOp>>

EngineInitFail ==
    /\ engine = "pending"
    /\ engine' = "failed"
    /\ out' = <<>>
    /\ returned' = NoReturn
    /\ UNCHANGED <<nodes, order, cache, computing, initialized, handlers, tasks, scenario, calls, asked, primed, edits, live, brep, featureOp>>

\* ManifoldEngine.initialize resumes after `await this.initPromise`: the first
\* caller awaits inside try/catch (lines 63-68), a later caller outside (line 58),
\* where a rejected initPromise throws through both initialize() and compute().
ResumeMeWait(t) ==
    LET m == Machine(t)
        f == Top(m.stack)
    IN /\ AtPc(t, "me_wait")
       /\ engine \in {"ok", "failed"}
       /\ UNCHANGED <<nodes, order, initialized, engine, handlers, scenario, calls, asked, primed, edits>>
       /\ IF engine = "ok"
          THEN Commit(t, tasks[t].root,
                      SetTop(m, [f EXCEPT !.pc = "gc_wait",
                                          !.res = Ok(createEmptyGeometry(NoError))]))
          ELSE IF f.joined
          THEN Commit(t, tasks[t].root, [m EXCEPT !.stack = <<>>, !.status = "rejected"])
          ELSE Commit(t, tasks[t].root,
                      SetTop(m, [f EXCEPT !.pc = "gc_wait",
                                          !.res = Fail(<<"Initialization failed">>)]))

\* GeometryComputer.initialize resumes after `await manifoldEngine.initialize()`
\* (lines 66-79).
ResumeGcWait(t) ==
    LET m == Machine(t)
        f == Top(m.stack)
    IN /\ AtPc(t, "gc_wait")
       /\ Commit(t, tasks[t].root, SetTop(m, [f EXCEPT !.pc = "c_wait"]))
       /\ IF f.res.success
          THEN /\ handlers' = handlers + 1
               /\ initialized' = TRUE
          ELSE UNCHANGED <<handlers, initialized>>
       /\ UNCHANGED <<nodes, order, engine, scenario, calls, asked, primed, edits>>

\* compute resumes after `await this.initialize()` (lines 88-107 and on).
ResumeCWait(t, k) ==
    LET m == Machine(t)
        f == Top(m.stack)
        popped == [m EXCEPT !.stack = Pop(@)]
    IN /\ AtPc(t, "c_wait")
       /\ k \in scenario.faults
       /\ Commit(t, tasks[t].root,
                 IF f.res.success THEN compute(popped, f.node, k)
                 ELSE Return(popped, Fail(f.res.error)))
       /\ UNCHANGED <<nodes, order, initialized, engine, handlers, scenario, calls, asked, primed, edits>>

ResumeOperand(t, k) ==
    /\ AtPc(t, "operand")
    /\ k \in scenario.faults
    /\ Commit(t, tasks[t].root, ResumeOperandStep(Machine(t), k))
    /\ UNCHANGED <<nodes, order, initialized, engine, handlers, scenario, calls, asked, primed, edits>>

ResumeTarget(t, k) ==
    /\ AtPc(t, "target")
    /\ k \in scenario.faults
    /\ Commit(t, tasks[t].root, ResumeTargetStep(Machine(t), k))
    /\ UNCHANGED <<nodes, order, initialized, engine, handlers, scenario, calls, asked, primed, edits>>

Store(t) ==
    /\ AtPc(t, "store")
    /\ Commit(t, tasks[t].root, StoreStep(Machine(t)))
    /\ UNCHANGED <<nodes, order, initialized, engine, handlers, scenario, calls, asked, primed, edits>>

\* The root of a task that runs recomputeAll()
SweepRoot == "*"

\* A caller issues recomputeAll() (lines 521-530).
StartSweep(t, k) ==
    /\ scenario.sweep
    /\ ~Running(t)
    /\ \A u \in TaskIds : u < t => Running(u)
    /\ k \in scenario.faults
    /\ calls < MaxCalls
    /\ calls' = calls + 1
    /\ \E m \in {Sweep(Push([Machine(t) EXCEPT !.stack = <<>>],
                            [Frame("", "sweep") EXCEPT !.doc = order, !.base = cache]),
                       1, k)} :
          /\ Commit(t, SweepRoot, m)
          /\ engine' = EngineAfter(m)
    /\ UNCHANGED <<nodes, order, initialized, handlers, scenario, asked, primed, edits>>

\* recomputeAll resumes after `await this.compute(nodeId)` (line 527).
ResumeSweep(t, k) ==
    /\ AtPc(t, "sweep")
    /\ k \in scenario.faults
    /\ \E m \in {Sweep(Machine(t), Top(tasks[t].stack).i + 1, k)} :
          /\ Commit(t, SweepRoot, m)
          /\ engine' = EngineAfter(m)
    /\ UNCHANGED <<nodes, order, initialized, handlers, scenario, calls, asked, primed, edits>>

\* The edits nodesStore.update may apply to a node: new parameters for a
\* primitive, new profiles for a sketch, or fields the geometry does not read.
Edited(node) ==
    IF node.type \in PrimitiveTypes
    THEN IF node.rev < MaxRev THEN {[node EXCEPT !.rev = @ + 1]} ELSE {}
    ELSE IF node.type = "sketch"
    THEN {[node EXCEPT !.profiles = p] : p \in ProfileChoices \ {node.profiles}}
    ELSE {node}

\* What an edit of nodeId means for the callers' bookkeeping.
Edit(nodeId) ==
    /\ edits < MaxEdits
    /\ edits' = edits + 1
    /\ returned' = NoReturn
    /\ tasks' = [t \in TaskIds |-> [tasks[t] EXCEPT !.fresh = ~Running(t)]]
    /\ primed' = {x \in Ids : /\ nodes[x].type \in {"extrude", "revolve"}
                               /\ IF nodes[x].sketchId = nodeId
                                  THEN x \in DOMAIN cache /\ cache[x].error = NoError
                                  ELSE x \in primed}

\* nodesStore.update(nodeId, updates), with the node-updated event it emits
UpdateNode(nodeId) ==
    /\ nodeId \in scenario.editable
    /\ nodes[nodeId].type # "none"
    /\ \E edited \in Edited(nodes[nodeId]) :
          /\ nodes' = [nodes EXCEPT ![nodeId] = edited]
          /\ cache' = HandleNodeEvent([nodes |-> nodes', order |-> order], cache, nodeId)
    /\ out' = << <<"node-updated", nodeId>> >>
    /\ Edit(nodeId)
    /\ UNCHANGED <<order, computing, initialized, engine, handlers, scenario, calls, asked, live, brep, featureOp>>

\* nodesStore.add(node), with the node-created event it emits
AddNode(nodeId) ==
    /\ nodeId \in scenario.editable
    /\ nodes[nodeId].type = "none"
    /\ nodes' = [nodes EXCEPT ![nodeId] = Primitive("box")]
    /\ order' = Append(order, nodeId)
    /\ cache' = HandleNodeEvent([nodes |-> nodes', order |-> order'], cache, nodeId)
    /\ out' = << <<"node-created", nodeId>> >>
    /\ Edit(nodeId)
    /\ UNCHANGED <<computing, initialized, engine, handlers, scenario, calls, asked, live, brep, featureOp>>

\* nodesStore.delete(nodeId) of a node without children, with the
\* node-deleted event it emits: no handler of the computer listens to it
DeleteNode(nodeId) ==
    /\ nodeId \in scenario.deletable
    /\ nodes[nodeId].type # "none"
    /\ nodes' = [nodes EXCEPT ![nodeId] = NoNode]
    /\ order' = SelectSeq(order, LAMBDA id : id # nodeId)
    /\ out' = << <<"node-deleted", nodeId>> >>
    /\ Edit(nodeId)
    /\ UNCHANGED <<cache, computing, initialized, engine, handlers, scenario, calls, asked, live, brep, featureOp>>

Next ==
    \/ \E t \in TaskIds, nodeId \in Ids, k \in Faults : Start(t, nodeId, k)
    \/ EngineInitOk
    \/ EngineInitFail
    \/ \E t \in TaskIds : ResumeMeWait(t)
    \/ \E t \in TaskIds : ResumeGcWait(t)
    \/ \E t \in TaskIds, k \in Faults : ResumeCWait(t, k)
    \/ \E t \in TaskIds, k \in Faults : ResumeOperand(t, k)
    \/ \E t \in TaskIds, k \in Faults : ResumeTarget(t, k)
    \/ \E t \in TaskIds : Store(t)
    \/ \E t \in TaskIds, k \in Faults : StartSweep(t, k)
    \/ \E t \in TaskIds, k \in Faults : ResumeSweep(t, k)
    \/ \E nodeId \in Ids : UpdateNode(nodeId)
    \/ \E nodeId \in Ids : AddNode(nodeId)
    \/ \E nodeId \in Ids : DeleteNode(nodeId)

Spec == Init /\ [][Next]_vars

\* The continuations of task t: the microtask queue runs each one that is ready.
TaskStep(t) ==
    \/ ResumeMeWait(t)
    \/ ResumeGcWait(t)
    \/ \E k \in Faults : ResumeCWait(t, k)
    \/ \E k \in Faults : ResumeOperand(t, k)
    \/ \E k \in Faults : ResumeTarget(t, k)
    \/ \E k \in Faults : ResumeSweep(t, k)
    \/ Store(t)

\* Every ready continuation eventually runs, and doInitialize settles.
FairSpec ==
    /\ Spec
    /\ \A t \in TaskIds : WF_vars(TaskStep(t))
    /\ WF_vars(EngineInitOk \/ EngineInitFail)

----------------------------------------------------------------------------
(* A Solid and its callers *)

\* Most kernel handles one Solid builds
MaxBuilds == 3
\* Most shells authored into one Solid
MaxShells == 2
\* Most triangles a caller passes with reversed winding, besides inverting all
MaxFlips == 2
\* Most triangles of a further shell passed with reversed winding
MaxShellFlips == 1
\* Largest rotation of the order in which a caller passes the triangles
MaxRot == 1

\* The sets of at most `most` positions among n triangles
FlipSets(n, most) == {f \in SUBSET (1..n) : Cardinality(f) <= most}

\* The geometry computer takes no step.
ComputerIdle ==
    UNCHANGED <<nodes, order, cache, computing, initialized, engine, handlers, tasks,
                out, returned, scenario, calls, asked, primed, edits, featureOp>>

\* new BoxSolid(params)
NewBoxSolid(ok, reversed) ==
    /\ brep.shape = "none"
    /\ \E made \in {generateBox(NoSolid, BoxParams)} : visualize(made, ok, reversed, TRUE)
    /\ ComputerIdle

\* new CylinderSolid(params)
NewCylinderSolid(ok, reversed) ==
    /\ brep.shape = "none"
    /\ \E made \in {generateCylinder(NoSolid, CylinderParams)} :
          visualize(made, ok, reversed, TRUE)
    /\ ComputerIdle

\* new Solid() or a Solid that has shells, and a caller that authors one
\* more closed shell with addTriangle: a tetrahedron beside the others
AddShell(inverted, flips) ==
    /\ brep.shape \in {"none", "shells"}
    /\ brep.shells < MaxShells
    /\ brep' = [addTriangles(brep,
                             Authored(TetraTriangles(2 * brep.shells, TetraNames[brep.shells + 1]),
                                      inverted, flips, 0), 1)
                  EXCEPT !.shape = "shells", !.shells = @ + 1, !.repaired = FALSE]
    /\ UNCHANGED live
    /\ ComputerIdle

\* new Solid() and a caller that authors a cube with addTriangle
AuthorCube(inverted, flips, rot) ==
    /\ brep.shape = "none"
    /\ brep' = [addTriangles(brep, Authored(BoxTriangles(1, 1, 1), inverted, flips, rot), 1)
                  EXCEPT !.shape = "cube", !.shells = 1, !.repaired = FALSE]
    /\ UNCHANGED live
    /\ ComputerIdle

\* new Solid() and a caller that authors a tetrahedron with one more
\* triangle on its edge from (0,0,0) to (1,0,0): that edge is used by three
\* triangles, the other two edges of the added triangle by one
AuthorFin(inverted, flips) ==
    /\ brep.shape = "none"
    /\ brep' = [addTriangles(brep,
                             Authored(TetraTriangles(0, TetraNames[1])
                                         \o << Tri("Fin", <<0, 0, 0>>, <<1, 0, 0>>,
                                                   <<0, 0 - 1, 0 - 1>>) >>,
                                      inverted, flips, 0), 1)
                  EXCEPT !.shape = "fin", !.shells = 1, !.repaired = FALSE]
    /\ UNCHANGED live
    /\ ComputerIdle

\* The call would build a handle, and the bound on handles allows it
MayBuild == (brep.dirty \/ brep.manifold = 0) => brep.builds < MaxBuilds

\* solid.getManifold()
GetManifold(ok) ==
    /\ brep.shape # "none"
    /\ MayBuild
    /\ \E built \in {manifoldize(brep, live, ok)} :
          /\ brep' = built.s
          /\ live' = built.live
    /\ ComputerIdle

\* solid.visualize()
Visualize(ok, reversed) ==
    /\ brep.shape # "none"
    /\ MayBuild
    /\ visualize(brep, ok, reversed, FALSE)
    /\ ComputerIdle

\* solid.free()
Free ==
    /\ brep.shape # "none"
    /\ brep' = free(brep, live).s
    /\ live' = free(brep, live).live
    /\ ComputerIdle

SolidInit == Init /\ scenario = ScenarioList[1]

SolidNext ==
    \/ \E ok \in BOOLEAN, reversed \in BOOLEAN : NewBoxSolid(ok, reversed)
    \/ \E ok \in BOOLEAN, reversed \in BOOLEAN : NewCylinderSolid(ok, reversed)
    \/ \E inverted \in BOOLEAN, flips \in FlipSets(4, MaxShellFlips) :
          AddShell(inverted, flips)
    \/ \E inverted \in BOOLEAN, flips \in FlipSets(12, MaxFlips), rot \in 0..MaxRot :
          AuthorCube(inverted, flips, rot)
    \/ \E inverted \in BOOLEAN, flips \in FlipSets(5, MaxShellFlips) :
          AuthorFin(inverted, flips)
    \/ \E ok \in BOOLEAN : GetManifold(ok)
    \/ \E ok \in BOOLEAN, reversed \in BOOLEAN : Visualize(ok, reversed)
    \/ Free

SolidSpec == SolidInit /\ [][SolidNext]_vars

----------------------------------------------------------------------------
(* The feature-level extrude() and revolve() and their caller *)

\* extrude(options) up to `await manifoldEngine.initialize()`
CallExtrude(profiles, plane, distanceBack, targetSolid) ==
    /\ featureOp.pc = "idle"
    /\ \E call \in {[NoFeature EXCEPT !.op = "extrude", !.profiles = profiles,
                                       !.plane = plane, !.axis = "x",
                                       !.distanceBack = distanceBack,
                                       !.targetSolid = targetSolid,
                                       !.alive = {targetSolid} \ {0}, !.next = 2]} :
          featureOp' = IF profiles = <<>> THEN FeatureReturn(call, FALSE, 0)
                       ELSE [call EXCEPT !.pc = "init"]
    /\ UNCHANGED <<nodes, order, cache, computing, initialized, engine, handlers, tasks,
                   out, returned, scenario, calls, asked, primed, edits, live, brep>>

\* revolve(options) up to `await manifoldEngine.initialize()`
CallRevolve(profiles, plane, axis, targetSolid) ==
    /\ featureOp.pc = "idle"
    /\ \E call \in {[NoFeature EXCEPT !.op = "revolve", !.profiles = profiles,
                                       !.plane = plane, !.axis = axis,
                                       !.distanceBack = 0,
                                       !.targetSolid = targetSolid,
                                       !.alive = {targetSolid} \ {0}, !.next = 2]} :
          featureOp' = IF profiles = <<>> THEN FeatureReturn(call, FALSE, 0)
                       ELSE [call EXCEPT !.pc = "init"]
    /\ UNCHANGED <<nodes, order, cache, computing, initialized, engine, handlers, tasks,
                   out, returned, scenario, calls, asked, primed, edits, live, brep>>

\* The call from `if (!manifoldEngine.isReady())` to its return; ks[i] is
\* what fails while the i-th profile is processed, the last one what fails in
\* the boolean with the target
ResumeFeature(ready, ks) ==
    /\ featureOp.pc = "init"
    /\ \E after \in {IF ready THEN FeatureLoop(featureOp, 1, ks)
                     ELSE FeatureReturn(featureOp, FALSE, 0)} :
          featureOp' = after
    /\ UNCHANGED <<nodes, order, cache, computing, initialized, engine, handlers, tasks,
                   out, returned, scenario, calls, asked, primed, edits, live, brep>>

FeatureInit == Init /\ scenario = ScenarioList[1]

FeatureNext ==
    \/ \E profiles \in FeatureProfiles, plane \in FeaturePlanes, distanceBack \in {0, 5},
          targetSolid \in {0, 1} :
          CallExtrude(profiles, plane, distanceBack, targetSolid)
    \/ \E profiles \in FeatureProfiles, plane \in FeaturePlanes, axis \in {"x", "y", "point"},
          targetSolid \in {0, 1} :
          CallRevolve(profiles, plane, axis, targetSolid)
    \/ \E ready \in BOOLEAN,
          ks \in [1..(MaxFeatureProfiles + 1) -> FeatureFaults] :
          ResumeFeature(ready, ks)

FeatureSpec == FeatureInit /\ [][FeatureNext]_vars

----------------------------------------------------------------------------
(* Properties *)

\* The frames of all invocations that are past the reentrancy guard.
ComputingFrames ==
    {<<t, i>> \in TaskIds \X (1..Cardinality(Ids) + 1) :
        /\ i <= Len(tasks[t].stack)
        /\ tasks[t].stack[i].pc \in PastGuard}

FrameAt(ti) == tasks[ti[1]].stack[ti[2]]

\* A caller issues compute(nodeId) in this step, and the call reaches line 93.
Issued(nodeId) == initialized /\ \E t \in TaskIds, k \in Faults : Start(t, nodeId, k)

\* C1: for every node id at most one compute() invocation is past the
\* reentrancy guard, and the computing set holds exactly the ids of those
\* invocations; a compute(X) issued while X is Computing returns the reentrancy
\* failure in the same step, without leaving an invocation behind (no queuing)
\* and without changing the cache or the computing set.
C1_ReentrancyGuard ==
    /\ [](/\ \A a, b \in ComputingFrames : FrameAt(a).node = FrameAt(b).node => a = b
          /\ computing = {FrameAt(a).node : a \in ComputingFrames})
    /\ [][\A nodeId \in Ids :
            (nodeId \in computing /\ Issued(nodeId))
            => /\ returned'.status = "done"
               /\ returned'.result = Fail(<<"Already computing this node">>)
               /\ tasks' = tasks
               /\ cache' = cache
               /\ computing' = computing]_vars

\* C1 witness: a call for a node has just failed fast with the reentrancy
\* error while another invocation is still computing that node.
C1_Witness ==
    /\ returned.status = "done"
    /\ returned.result = Fail(<<"Already computing this node">>)
    /\ returned.root \in computing
    /\ \E t \in TaskIds : Running(t)

\* C4: a compute(X) that finds a cache entry for X that is not dirty returns
\* that entry in the same step: no invocation is left suspended (nothing was
\* dispatched and no referenced node was computed), the cache and the computing
\* set are unchanged and no event is emitted.
C4_CachedReturn ==
    [][\A nodeId \in Ids :
         (/\ Issued(nodeId)
          /\ nodeId \notin computing
          /\ nodes[nodeId].type # "none"
          /\ nodeId \in DOMAIN cache
          /\ ~cache[nodeId].dirty)
         => /\ returned'.status = "done"
            /\ returned'.result = Ok(cache[nodeId])
            /\ tasks' = tasks
            /\ cache' = cache
            /\ computing' = computing
            /\ out' = <<>>]_vars

\* C4 witness: a call has just returned a valid cached entry of a composite
\* node without emitting an event.
C4_Witness ==
    /\ returned.status = "done"
    /\ returned.result.success
    /\ out = <<>>
    /\ returned.root \in DOMAIN cache
    /\ returned.result.value = cache[returned.root]
    /\ cache[returned.root].error = NoError
    /\ References(returned.root) # {}

\* C8: whenever an invocation that marked its node Computing returns (the node
\* leaves the computing set), the same step has written the node's cache entry
\* through geometryCacheStore.set: the entry is the geometry the dispatch
\* yielded, or the error entry of the catch block when the dispatch threw,
\* whatever entry the node had before.
C8_UnconditionalWrite ==
    [][\A a \in ComputingFrames :
         LET f == FrameAt(a) IN
         f.node \notin computing'
         => /\ f.pc = "store"
            /\ <<"geometry-computed", f.node>> \in SeqToSet(out')
            /\ f.node \in DOMAIN cache'
            /\ cache'[f.node] = IF f.threw
                                THEN createEmptyGeometry(<<"Computation error">>)
                                ELSE f.geom]_vars

\* C8 witness: a recompute that threw has just replaced an earlier entry of
\* its node by the error entry.
C8_Witness ==
    \E nodeId \in DOMAIN cache :
        /\ <<"geometry-computed", nodeId>> \in SeqToSet(out)
        /\ cache[nodeId].error = <<"Computation error">>
        /\ edits > 0

\* C9: every compute() call returns, also on a document whose references
\* form a cycle: no node occurs twice among the invocations one call has
\* suspended (the request for a node that is already Computing fails instead
\* of recursing), and once every call has returned no node is left Computing.
C9_Termination ==
    /\ \A t \in TaskIds : Running(t) ~> ~Running(t)
    /\ [](\A t \in TaskIds : \A i, j \in 1..Len(tasks[t].stack) :
              tasks[t].stack[i].node = tasks[t].stack[j].node => i = j)
    /\ []((\A t \in TaskIds : ~Running(t)) => computing = {})

\* C9 witness: on the cyclic document the call for the boolean B that lists
\* itself has returned; B's entry names B as the failing operand and nothing
\* is left Computing.
C9_Witness ==
    /\ scenario.graph = CyclicGraph
    /\ \A t \in TaskIds : ~Running(t)
    /\ returned.root = "B"
    /\ "B" \in DOMAIN cache
    /\ cache["B"].error = <<"Failed to compute operand", "B">>
    /\ computing = {}

\* The nodes of doc that reference a node of `set` through operandIds or
\* through an extrude/revolve sketchId, directly or transitively, and `set`.
RECURSIVE Referrers(_, _)
Referrers(ns, set) ==
    LET more == {x \in Ids :
                    \/ IsBoolean(ns[x]) /\ SeqToSet(ns[x].operandIds) \cap set # {}
                    \/ ns[x].type \in {"extrude", "revolve"} /\ ns[x].sketchId \in set}
    IN IF more \subseteq set THEN set ELSE Referrers(ns, set \cup more)

\* The profiles the extrusions inside a solid were made from.
RECURSIVE ProfilesIn(_)
ProfilesIn(solid) ==
    IF solid.op \in {"extrude", "revolve"} THEN {solid.num[1]}
    ELSE UNION {ProfilesIn(solid.args[i]) : i \in 1..Len(solid.args)}

\* C2: an edit of the sketch S of a cached extrude X marks X's entry dirty,
\* and a compute(X) that starts after the last edit of S, that edit having
\* found X cached, returns geometry made from S's current profiles.
C2_ReflectsNewProfiles ==
    /\ [][\A S \in Ids, X \in DOMAIN cache :
            (out' = << <<"node-updated", S>> >>
             /\ nodes[X].type = "extrude" /\ nodes[X].sketchId = S)
            => X \in DOMAIN cache' /\ cache'[X].dirty]_vars
    /\ []((/\ returned.status = "done"
           /\ returned.fresh
           /\ returned.root \in primed
           /\ nodes[returned.root].type = "extrude"
           /\ returned.result.success
           /\ returned.result.value.error = NoError)
          => ProfilesIn(returned.result.value.manifold)
                \subseteq SeqToSet(nodes[nodes[returned.root].sketchId].profiles))

\* C3: once a node-created or node-updated event for N is handled, every cache
\* entry of N and of the nodes that reference N directly or transitively is
\* dirty.
C3_InvalidationReachesReferrers ==
    [][\A N \in Ids :
         (out' = << <<"node-updated", N>> >> \/ out' = << <<"node-created", N>> >>)
         => \A x \in Referrers(nodes', {N}) \cap DOMAIN cache' : cache'[x].dirty]_vars

\* C5: an entry that is dirty becomes not dirty only in a step that stores a
\* recompute of that node with error = null.
C5_DirtyClearedOnlyBySuccess ==
    [][\A x \in DOMAIN cache :
         (cache[x].dirty /\ x \in DOMAIN cache' /\ ~cache'[x].dirty)
         => /\ <<"geometry-computed", x>> \in SeqToSet(out')
            /\ cache'[x].error = NoError]_vars

\* C6: every cache entry is fully populated (error null; handle, render
\* buffers, topology and bounding box present) or fully empty (error set, all
\* of them null).
C6_FullOrEmpty ==
    \A x \in DOMAIN cache :
        LET g == cache[x] IN
        \/ /\ g.error = NoError
           /\ g.manifold # NullSolid /\ g.mesh /\ g.topology /\ g.bounds
        \/ /\ g.error # NoError
           /\ g.manifold = NullSolid /\ ~g.mesh /\ ~g.topology /\ ~g.bounds

\* C7: no compute() call ends with a rejected promise.
C7_NeverRejects == returned.status # "rejected"

\* The solid a compute(id) yields when nothing else runs and the kernel works,
\* on a document without cycles or dangling references.
RECURSIVE SequentialFold(_, _, _, _)
RECURSIVE SequentialSolid(_)
SequentialFold(operation, result, operandIds, i) ==
    IF i > Len(operandIds) THEN result
    ELSE SequentialFold(operation,
                        BooleanSolid(operation, result, SequentialSolid(operandIds[i])),
                        operandIds, i + 1)

SequentialSolid(id) ==
    LET node == nodes[id]
        feature == FeatureSolid(node, "ok").solid
    IN IF IsBoolean(node)
       THEN SequentialFold(node.type, SequentialSolid(node.operandIds[1]), node.operandIds, 2)
       ELSE IF node.type = "extrude" /\ node.booleanOp # "new" /\ node.targetBodyId # ""
       THEN BooleanSolid(node.booleanOp, SequentialSolid(node.targetBodyId), feature)
       ELSE IF node.type \in {"extrude", "revolve"} THEN feature
       ELSE PrimitiveSolid(id, node)

\* C10: when calls for different node ids overlap on an unedited acyclic
\* document with a working kernel, then once all have returned every cache entry
\* is the valid entry a sequential run produces.
C10_OverlapEqualsSequential ==
    (/\ scenario.graph = AcyclicGraph
     /\ scenario.faults = {"ok"}
     /\ edits = 0
     /\ Cardinality(asked) = calls
     /\ \A t \in TaskIds : ~Running(t))
    => \A x \in DOMAIN cache :
          cache[x] = [manifold |-> SequentialSolid(x), mesh |-> TRUE, topology |-> TRUE,
                      bounds |-> TRUE, dirty |-> FALSE, error |-> NoError]

----------------------------------------------------------------------------
(* recomputeAll *)

\* The entry of node id once a sweep that started from the cache `base` has
\* visited every node of an acyclic document, whatever the order: an entry that
\* was not dirty stays, any other is computed from the final entries of the
\* nodes it references.
RECURSIVE SweepEntry(_, _)
RECURSIVE SweepOperands(_, _, _, _)
SweepOperands(base, operandIds, i, ops) ==
    IF i > Len(operandIds) THEN [failed |-> "", ops |-> ops]
    ELSE LET o == operandIds[i]
             found == o \in Ids /\ nodes[o].type # "none"
             solid == IF found THEN SweepEntry(base, o).manifold ELSE NullSolid
         IN IF solid = NullSolid THEN [failed |-> o, ops |-> ops]
            ELSE SweepOperands(base, operandIds, i + 1, Append(ops, solid))

SweepEntry(base, id) ==
    LET node == nodes[id]
        operands == SweepOperands(base, node.operandIds, 1, <<>>)
        feature == FeatureSolid(node, "ok")
        target == IF node.targetBodyId \in Ids /\ nodes[node.targetBodyId].type # "none"
                  THEN SweepEntry(base, node.targetBodyId).manifold ELSE NullSolid
    IN IF id \in DOMAIN base /\ ~base[id].dirty THEN base[id]
       ELSE IF node.type \in PrimitiveTypes THEN computePrimitive(id, node, "ok")
       ELSE IF IsBoolean(node)
       THEN IF Len(node.operandIds) < 2
            THEN createEmptyGeometry(<<"Boolean requires at least 2 operands">>)
            ELSE IF operands.failed # ""
            THEN createEmptyGeometry(<<"Failed to compute operand", operands.failed>>)
            ELSE manifoldToGeometry(
                     FoldBoolean(node.type, operands.ops[1], operands.ops, 2, "ok").solid,
                     "ok").geom
       ELSE IF node.type \in {"extrude", "revolve"}
       THEN IF feature.error # NoError THEN createEmptyGeometry(feature.error)
            ELSE IF node.type = "extrude" /\ node.booleanOp # "new"
                    /\ node.targetBodyId # "" /\ target # NullSolid
            THEN manifoldToGeometry(BooleanSolid(node.booleanOp, target, feature.solid),
                                    "ok").geom
            ELSE manifoldToGeometry(feature.solid, "ok").geom
       ELSE createEmptyGeometry(<<"Unsupported node type", node.type>>)

\* A recomputeAll() call returns in this step, no node event having arrived
\* since it was issued.
SweepReturns ==
    /\ returned'.root = SweepRoot
    /\ returned'.status # "none"
    /\ returned'.fresh

\* The cache the returning sweep started from; a sweep that finds nothing to
\* compute returns in the step that issued it.
SweepBase ==
    IF Running(returned'.task) THEN tasks[returned'.task].stack[1].base ELSE cache

\* C11: on an acyclic document, a recomputeAll() during which no node event
\* arrives resolves with every node of the document holding a cache entry with
\* dirty = false, and each entry is the one fixed by the document and the cache
\* the sweep started from, independently of the order of the node map.
C11_SweepOrderIndependent ==
    [][(SweepReturns /\ scenario.graph # CyclicGraph)
       => /\ returned'.status = "done"
          /\ \A id \in SeqToSet(order) :
                /\ id \in DOMAIN cache'
                /\ ~cache'[id].dirty
                /\ cache'[id] = SweepEntry(SweepBase, id)]_vars

----------------------------------------------------------------------------
(* computeBoolean *)

\* The invocations of computeBoolean that are suspended or have returned to
\* compute, with two operands or more.
BooleanFrames ==
    {ti \in TaskIds \X (1..Cardinality(Ids) + 2) :
        /\ ti[2] <= Len(tasks[ti[1]].stack)
        /\ FrameAt(ti).pc \in {"operand", "store"}
        /\ IsBoolean(FrameAt(ti).snap)
        /\ Len(FrameAt(ti).snap.operandIds) >= 2}

\* The operand a frame of computeBoolean received last failed or has no handle.
OperandFailed(f) == f.res # NoResult /\ (~f.res.success \/ f.res.value.manifold = NullSolid)

\* C12: a boolean node computes its operands one at a time in operandIds
\* order: while it awaits operand i it holds the solids of operands 1..i-1 and
\* the call above it is compute(operandIds[i]); at the first operand that fails
\* or has no handle it stops with the error entry naming that operand, no later
\* operand computed and no kernel boolean run, and that entry is what compute
\* stores for the boolean node.
C12_OperandsInOrderStopAtFirstFailure ==
    /\ [](\A ti \in BooleanFrames :
            LET f == FrameAt(ti)
                stack == tasks[ti[1]].stack
                n == Len(f.snap.operandIds)
            IN /\ f.i \in 1..n
               /\ f.pc = "operand" =>
                     /\ Len(f.ops) = f.i - 1
                     /\ ti[2] < Len(stack) => stack[ti[2] + 1].node = f.snap.operandIds[f.i]
                     /\ ti[2] = Len(stack) => f.res # NoResult
               /\ (f.pc = "store" /\ OperandFailed(f)) =>
                     /\ Len(f.ops) = f.i - 1
                     /\ f.geom = createEmptyGeometry(
                                     <<"Failed to compute operand", f.snap.operandIds[f.i]>>)
                     /\ ~f.threw
               /\ (f.pc = "store" /\ ~OperandFailed(f)) =>
                     /\ f.i = n
                     /\ Len(f.ops) = n)
    /\ [][\A t \in TaskIds :
            (/\ AtPc(t, "store")
             /\ <<t, Len(tasks[t].stack)>> \in BooleanFrames
             /\ OperandFailed(Top(tasks[t].stack))
             /\ tasks'[t].stack # tasks[t].stack)
            => /\ Top(tasks[t].stack).node \in DOMAIN cache'
               /\ cache'[Top(tasks[t].stack).node] = Top(tasks[t].stack).geom]_vars

\* A boolean node was stored with the error naming its first operand, and its
\* second operand was never computed.
C12_Witness ==
    \E x \in DOMAIN cache :
        /\ IsBoolean(nodes[x])
        /\ Len(nodes[x].operandIds) >= 2
        /\ returned.root = x
        /\ cache[x] = createEmptyGeometry(<<"Failed to compute operand", nodes[x].operandIds[1]>>)
        /\ nodes[x].operandIds[2] \notin DOMAIN cache
        /\ nodes[x].operandIds[2] # nodes[x].operandIds[1]

----------------------------------------------------------------------------
(* Failure isolation *)

\* The nodes a compute of the nodes in `set` may ask for: `set` and what it
\* references, directly or transitively.
RECURSIVE Reach(_)
Reach(set) ==
    LET more == UNION {References(x) \cap Ids : x \in set}
    IN IF more \subseteq set THEN set ELSE Reach(set \cup more)

\* C13: a step of a compute(X) call, whatever its outcome, changes no cache
\* entry but those of X and of the nodes X references directly or
\* transitively: every other entry stays as it was.
C13_FailureIsolated ==
    [][\A t \in TaskIds :
         LET X == IF tasks'[t].status = "run" THEN tasks'[t].root ELSE returned'.root
         IN (/\ \/ tasks'[t].stack # tasks[t].stack
                \/ returned'.task = t
             /\ X # SweepRoot)
            => /\ \A x \in DOMAIN cache : x \in DOMAIN cache'
               /\ \A x \in DOMAIN cache' \ Reach({X}) :
                     x \in DOMAIN cache /\ cache'[x] = cache[x]]_vars

\* compute(X) has ended with an error entry for X while a node that X does not
\* reference and that does not reference X holds a valid entry.
C13_Witness ==
    /\ returned.status = "done"
    /\ returned.root \in DOMAIN cache
    /\ cache[returned.root].error # NoError
    /\ \E y \in DOMAIN cache :
          /\ y \notin Reach({returned.root})
          /\ returned.root \notin Reach({y})
          /\ cache[y].error = NoError
          /\ cache[y].manifold # NullSolid

----------------------------------------------------------------------------
(* computeExtrude: the boolean with the target body *)

\* C14: whenever compute stores a valid entry for an extrude node that names
\* a booleanOp other than 'new' and a targetBodyId, the stored solid is that
\* booleanOp applied to the solid of the target's cache entry and the
\* extrusion, never the extrusion alone.
C14_TargetBooleanApplied ==
    [][\A x \in DOMAIN cache' :
         LET node == nodes[x]
             solid == cache'[x].manifold
         IN (/\ <<"geometry-computed", x>> \in SeqToSet(out')
             /\ node.type = "extrude"
             /\ node.booleanOp # "new"
             /\ node.targetBodyId # ""
             /\ cache'[x].error = NoError)
            => /\ solid.op = node.booleanOp
               /\ Len(solid.args) = 2
               /\ node.targetBodyId \in DOMAIN cache'
               /\ solid.args[1] = cache'[node.targetBodyId].manifold
               /\ solid.args[1] # NullSolid]_vars

----------------------------------------------------------------------------
(* Kernel handles *)

\* C15: when an invocation of compute() completes, every kernel handle it
\* created, other than the one in the entry it stores, has been released (is
\* no longer live).
C15_IntermediatesReleased ==
    [][\A t \in TaskIds :
         (AtPc(t, "store") /\ tasks'[t].stack # tasks[t].stack)
         => LET f == Top(tasks[t].stack)
            IN (f.made \ {cache'[f.node].manifold}) \cap live' = {}]_vars

----------------------------------------------------------------------------
(* Solid: the kernel handle *)

\* C16: a Solid holds at most one live kernel handle, the one it caches; the
\* handle a rebuild supersedes has been released.
C16_AtMostOneLiveHandle ==
    /\ Cardinality(live) <= 1
    /\ brep.manifold # 0 => live = {brep.manifold}

----------------------------------------------------------------------------
(* Solid: orientation *)

\* The solid caches a handle built from the triangles it holds now
Built == brep.manifold # 0 /\ ~brep.dirty

\* C17: once _manifoldize has built a closed 2-manifold triangle set of one or
\* several shells, whatever its authored winding, the mesh has strictly
\* positive signed volume.
C17_PositiveSignedVolume ==
    Built => SignedVolume6(brep.verts, brep.triVerts, 1) > 0

\* The number of triangle sides that run from vertex a to vertex b
DirectedUses(tris, a, b) ==
    Cardinality({te \in (1..Len(tris)) \X (1..3) : DirectedEdge(tris[te[1]], te[2]) = <<a, b>>})

\* C18: after the winding repair has run on a closed 2-manifold, every
\* undirected edge is used by exactly two triangles, once in each direction,
\* whichever triangles were authored reversed and in whichever order.
C18_EdgesUsedOnceEachWay ==
    (/\ brep.repaired
     /\ \A t \in 1..Len(brep.triVerts) : \A e \in 1..3 :
           LET ab == DirectedEdge(brep.triVerts[t], e)
           IN DirectedUses(brep.triVerts, ab[1], ab[2])
                 + DirectedUses(brep.triVerts, ab[2], ab[1]) = 2) =>
        \A t \in 1..Len(brep.triVerts) : \A e \in 1..3 :
            LET ab == DirectedEdge(brep.triVerts[t], e)
            IN /\ DirectedUses(brep.triVerts, ab[1], ab[2]) = 1
               /\ DirectedUses(brep.triVerts, ab[2], ab[1]) = 1

\* The repair ran on a cube authored with some triangles reversed, and on a
\* solid of two shells
C18_Witness == brep.repaired /\ brep.shape = "cube" /\ brep.manifold # 0

----------------------------------------------------------------------------
(* Solid: topology extraction *)

\* The triangle sides of a solid
Sides(s) == (1..Len(s.triVerts)) \X (1..3)

\* The undirected edge under a triangle side
SideEdge(s, te) ==
    ek(DirectedEdge(s.triVerts[te[1]], te[2])[1], DirectedEdge(s.triVerts[te[1]], te[2])[2])

\* The undirected edges shared by exactly two triangles of differently named
\* faces, each with the pair of face names
SharedEdges(s) ==
    { [pair |-> {s.names[s.triIDs[te[1]]], s.names[s.triIDs[ue[1]]]}, seg |-> SideEdge(s, te)] :
        <<te, ue>> \in { x \in Sides(s) \X Sides(s) :
                           /\ x[1] # x[2]
                           /\ SideEdge(s, x[1]) = SideEdge(s, x[2])
                           /\ s.triIDs[x[1][1]] # s.triIDs[x[2][1]]
                           /\ Cardinality({ve \in Sides(s) : SideEdge(s, ve) = SideEdge(s, x[1])}) = 2 } }

\* The segments of a polyline, one per pair of consecutive vertices
PolylineSegments(chain) == [i \in 1..(Len(chain) - 1) |-> ek(chain[i], chain[i + 1])]

\* C19: after visualize(), every undirected edge shared by exactly two
\* triangles of differently named faces lies in exactly one Edge polyline of
\* its face pair, and no polyline holds a segment twice; closed loops included.
C19_SharedEdgeInOnePolyline ==
    brep.visualized =>
        /\ \A x \in SharedEdges(brep) :
              Cardinality({k \in 1..Len(brep.edges) :
                             /\ brep.edges[k].pair = x.pair
                             /\ x.seg \in SeqToSet(PolylineSegments(brep.edges[k].chain))}) = 1
        /\ \A k \in 1..Len(brep.edges) :
              LET segs == PolylineSegments(brep.edges[k].chain)
              IN \A i, j \in 1..Len(segs) : i # j => segs[i] # segs[j]

\* C20: the centered 20 x 20 x 20 box, authored as 12 triangles over 8 welded
\* corners under 6 face names, visualizes as 6 faces, 12 edges and 8 vertices.
C20_BoxTopology ==
    (brep.shape = "box" /\ brep.visualized) =>
        /\ Len(brep.triVerts) = 12
        /\ Len(brep.verts) = 8
        /\ Len(brep.faces) = 6
        /\ Len(brep.edges) = 12
        /\ Len(brep.vertices) = 8

\* The box has been constructed and visualized
C20_Witness ==
    /\ brep.shape = "box"
    /\ brep.visualized
    /\ brep.verts[1] = <<0 - 10, 0 - 10, 0 - 10>>
    /\ <<10, 10, 10>> \in SeqToSet(brep.verts)

----------------------------------------------------------------------------
(* Extraction repeated on an unchanged Solid *)

\* The names of the faces, of the edges and of the vertices of a Solid.
\* endNames: edge.edgeName as addVert pushes it for the two ends of every
\* CADEdge, in order; vertexName(p): V[...] of the first two edges that meet
\* at position p
EntityNames(s) ==
    LET endNames ==
            [j \in 1..(2 * Len(s.edges)) |->
                LET e == s.edges[((j - 1) \div 2) + 1]
                IN [pos |-> s.verts[(IF j % 2 = 1 THEN e.chain[1]
                                     ELSE e.chain[Len(e.chain)]) + 1],
                    name |-> e.pair]]
        vertexName(p) ==
            LET meeting == SelectSeq(endNames, LAMBDA x : x.pos = p)
            IN [j \in 1..(IF Len(meeting) < 2 THEN Len(meeting) ELSE 2) |->
                   meeting[j].name]
    IN [faces |-> SeqToSet(s.faces),
        edges |-> {s.edges[j].pair : j \in 1..Len(s.edges)},
        vertices |-> {vertexName(s.vertices[j]) : j \in 1..Len(s.vertices)}]

\* C21: when visualize() runs again on a Solid whose triangles are those of
\* the earlier call, and the kernel returns the mesh it returned then, the
\* faces, edges and vertices are exactly those the earlier call built: none
\* is left over, none is added, the names and the geometry are the same.
C21_VisualizeReplaces ==
    [][(/\ brep.visualized
        /\ brep'.visualized
        /\ brep'.again
        /\ brep'.triVerts = brep.triVerts
        /\ brep'.meshReversed = brep.meshReversed)
       => /\ brep'.faces = brep.faces
          /\ brep'.edges = brep.edges
          /\ brep'.vertices = brep.vertices
          /\ EntityNames(brep') = EntityNames(brep)
          /\ Len(brep'.faces) = Cardinality(SeqToSet(brep'.faces))]_vars

\* A box was visualized by its constructor, released, and visualized again
C21_Witness ==
    /\ brep.shape = "box"
    /\ brep.visualized
    /\ brep.again
    /\ brep.builds = 2
    /\ Len(brep.faces) = 6
    /\ Len(brep.edges) = 12

----------------------------------------------------------------------------
(* Extrusion direction modes *)

\* The per-profile solids inside a solid, each with the interval it spans
\* along the extrusion axis: cs.extrude(height) spans [0, height] and
\* translate([0, 0, z]) shifts it by z
RECURSIVE Pieces(_, _)
Pieces(solid, z) ==
    IF solid.op = "extrude"
    THEN {[profile |-> solid.num[1], lo |-> z, hi |-> z + solid.num[2]]}
    ELSE IF solid.op = "translate" THEN Pieces(solid.args[1], z + solid.num[1])
    ELSE UNION {Pieces(solid.args[i], z) : i \in 1..Len(solid.args)}

\* C22: a valid entry of an extrude node holds, for every profile of its
\* sketch, a solid that spans [z, z + h] along the extrusion axis, where
\* (h, z) = (distance, 0) for 'normal', (2 * distance, -distance) for 'both'
\* and (distance, -distance / 2) for 'symmetric'.
C22_DirectionSpans ==
    \A x \in DOMAIN cache :
        LET node == nodes[x]
            d == node.distance
            h == IF node.direction = "both" THEN 2 * d ELSE d
            z == IF node.direction = "both" THEN 0 - d
                 ELSE IF node.direction = "symmetric" THEN 0 - (d \div 2)
                 ELSE 0
        IN (/\ node.type = "extrude"
            /\ cache[x].error = NoError
            /\ node.sketchId \notin scenario.editable)
           => Pieces(cache[x].manifold, 0)
                 = {[profile |-> p, lo |-> z, hi |-> z + h] :
                       p \in SeqToSet(nodes[node.sketchId].profiles)}

----------------------------------------------------------------------------
(* Updates that land while a compute is suspended *)

\* C23: when a compute(X) that was suspended while a node-updated event was
\* handled completes, X's cache entry is dirty, or an error entry, or holds
\* geometry made from the inputs as they are after the update: from the
\* parameters the primitives have now and, for an extrude or revolve, from
\* profiles its sketch holds now.
C23_NoStaleEntryAfterOverlap ==
    (/\ returned.status = "done"
     /\ ~returned.fresh
     /\ returned.root \in DOMAIN cache
     /\ ~cache[returned.root].dirty
     /\ cache[returned.root].error = NoError)
    => LET x == returned.root
           solid == cache[x].manifold
       IN /\ \A leaf \in Handles(solid) :
                leaf.op \in PrimitiveTypes => leaf.num[1] = nodes[leaf.id].rev
          /\ nodes[x].type \in {"extrude", "revolve"}
                => ProfilesIn(solid)
                      \subseteq SeqToSet(nodes[nodes[x].sketchId].profiles)

----------------------------------------------------------------------------
(* The target body of an extrude *)

\* C24: when a node-created or node-updated event for the node an extrude
\* names as targetBodyId is handled, the extrude's cache entry is dirty
\* afterwards, and a clean valid entry of such an extrude holds the target
\* body as its parameters are now.
C24_TargetInvalidatesExtrude ==
    /\ [][\A T \in Ids, X \in DOMAIN cache :
            (/\ out' \in {<< <<"node-updated", T>> >>, << <<"node-created", T>> >>}
             /\ nodes[X].type = "extrude"
             /\ nodes[X].booleanOp # "new"
             /\ nodes[X].targetBodyId = T
             /\ cache[X].error = NoError)
            => X \in DOMAIN cache' /\ cache'[X].dirty]_vars
    /\ [](\A X \in DOMAIN cache :
            (/\ nodes[X].type = "extrude"
             /\ nodes[X].booleanOp # "new"
             /\ nodes[X].targetBodyId # ""
             /\ tasks = [t \in TaskIds |-> IdleTask]
             /\ ~cache[X].dirty
             /\ cache[X].error = NoError)
            => \A leaf \in Handles(cache[X].manifold) :
                  leaf.op \in PrimitiveTypes => leaf.num[1] = nodes[leaf.id].rev)

----------------------------------------------------------------------------
(* Event handling on documents with reference cycles *)

\* C25: handling a node-created or node-updated event comes to an end by
\* itself on every document, reference cycles included: the recursion of
\* markDirtyWithDependents never runs until the call stack is exhausted.
C25_EventHandlingTerminates ==
    [][\A N \in Ids :
         (/\ out' \in {<< <<"node-updated", N>> >>, << <<"node-created", N>> >>}
          /\ handlers > 0)
         => ~markDirtyWithDependents([nodes |-> nodes', order |-> order'],
                                     [cache |-> cache, overflow |-> FALSE], N, 1).overflow]_vars

----------------------------------------------------------------------------
(* Kernel failures inside an extrude or a revolve *)

\* C26: a valid entry of an extrude or revolve node holds the solid in which
\* every profile of a profile list of the sketch was extruded or revolved,
\* translated and unioned; when one of those kernel steps has failed, the
\* entry is an error entry.
C26_FeatureFailureIsError ==
    \A x \in DOMAIN cache :
        (nodes[x].type \in {"extrude", "revolve"} /\ cache[x].error = NoError)
        => \E profiles \in ProfileChoices \ {<<>>} :
              LET node == nodes[x]
                  results == IF node.type = "extrude"
                             THEN ExtrusionResults(
                                      profiles, 1,
                                      ExtrudeHeight(node.distance, node.direction),
                                      ExtrudeOffsetZ(node.distance, node.direction), "ok")
                             ELSE RevolutionResults(profiles, 1, "ok")
              IN UnionAll(results[1], results, 2, "ok") \in Handles(cache[x].manifold)

----------------------------------------------------------------------------
(* Deleted nodes *)

\* C27: once a node has been deleted from the document, its own cache entry
\* is gone or dirty, and the entry of every cached node that references it,
\* directly or through other nodes, is dirty.
C27_DeleteInvalidates ==
    [][\A N \in Ids :
         out' = << <<"node-deleted", N>> >>
         => /\ N \in DOMAIN cache' => cache'[N].dirty
            /\ \A x \in Referrers(nodes', {N}) \cap DOMAIN cache' : cache'[x].dirty]_vars

----------------------------------------------------------------------------
(* The Result of compute and the entry behind it *)

\* C28: when compute(X) returns, success = true only with an entry whose
\* error is null: if the value it returns, or the entry it has left in the
\* cache for X, is an error entry, the Result is a failure.
C28_ResultAgreesWithEntry ==
    (returned.status = "done" /\ returned.result.success)
    => /\ returned.result.value.error = NoError
       /\ returned.root \in DOMAIN cache => cache[returned.root].error = NoError

----------------------------------------------------------------------------
(* Kernel handles in the feature-level extrude() and revolve() *)

\* C29: extrude() and revolve() never pass to the kernel, and never return,
\* a handle they have deleted, whatever the plane of the sketch; a handle
\* they return with success exists.
C29_NoUseAfterRelease ==
    /\ ~featureOp.misused
    /\ (featureOp.pc = "done" /\ featureOp.ret.success)
          => featureOp.ret.value \in featureOp.alive

----------------------------------------------------------------------------
(* The winding repair at boundary and non-manifold edges *)

\* C30: the winding repair propagates across no edge that is used by one
\* triangle or by three or more: a triangle none of whose edges is used by
\* exactly two triangles comes out of the repair with the vertex order it
\* was authored with.
C30_RepairLeavesOddEdges ==
    LET authored == brep.triVerts
        fixed == fixTriangleWindingsByAdjacency(authored, VertexBase(brep.verts)).tris
    IN \A t \in 1..Len(authored) :
          (\A e \in 1..3 :
              LET ab == DirectedEdge(authored[t], e)
              IN DirectedUses(authored, ab[1], ab[2])
                    + DirectedUses(authored, ab[2], ab[1]) # 2)
          => fixed[t] = authored[t]

====
